---- MODULE Spec2Model ----
(***************************************************************************)
(* The conversational agent loop of dietify-backend: the POST /reply       *)
(* streaming gateway (src/api/v1/reply.ts), the LangGraph state graph      *)
(* call_model <-> store_data (memory_agent/graph.ts) and the three tool    *)
(* handlers bound by initializeTools (memory_agent/tools.ts) with the      *)
(* stores they write: the memory store and the intake log tables.          *)
(***************************************************************************)
EXTENDS Integers, Sequences, FiniteSets, TLC

\* ------------------------------------------------------------------ bounds
MaxRuns  == 2      \* POST /reply requests issued one after another (Spec)
MaxIds   == 2      \* tool-call requests on the thread, all runs together (Spec)
MaxCalls == 2      \* tool-call requests in one assistant turn
MaxFrags == 1      \* streamed fragments of one model response (SpecStream)
MaxStreamRuns == 1 \* POST /reply requests in SpecStream
MaxStreamIds == 1  \* tool-call requests on the thread in SpecStream
MaxLoopRuns == 1   \* POST /reply requests in SpecLoop
MaxSteps == 27     \* cap of the superstep counter in SpecLoop
MaxNow == 3        \* last millisecond of the clock (SpecClock)
MaxClockFrags == 2 \* streamed fragments of one model response (SpecClock)
MaxStoreRuns == 2  \* POST /reply requests in SpecStore
MaxStoreIds == 2   \* tool-call requests, all runs together, in SpecStore
MaxEntryId == 2    \* largest entryId or memoryId a model names (SpecStore)
MaxMemRuns == 2    \* POST /reply requests in SpecMemory
MaxFoodRuns == 1   \* POST /reply requests in SpecFood
MaxText == 3       \* characters of a swept quantity text
MaxWaterRuns == 1  \* POST /reply requests in SpecWater
MaxCancelRuns == 1 \* POST /reply requests in SpecCancel
MaxConcRuns == 2   \* POST /reply requests in SpecConcurrent
MaxAuthRuns == 2   \* POST /reply requests in SpecAuth
MaxThreadRuns == 2 \* POST /reply requests in SpecThread

\* The superstep budget of a run.  graph.stream is called without a
\* recursionLimit, so the library default of 25 supersteps applies.
RecursionLimit == 25

\* ------------------------------------------------------------ value sets
Users   == {"u1"}
Threads == {"t1"}
END     == "__end__"

\* The users and threads of the specifications with two tenants.
AllUsers   == {"u1", "u2"}
AllThreads == {"t1", "t2"}

\* Names returned by initializeTools (the registry the graph binds).
initializeTools == {"upsertMemory", "saveFoodIntake", "saveWaterIntake"}

\* Names a model may put in a tool-call request: the registry plus one
\* name that is not registered.
ToolNames == initializeTools \cup {"deleteMemory"}

\* Fragments the "messages" stream yields: chunks of the assistant message
\* (tc: tool_call_chunks is non-empty, text: content is non-empty) and the
\* tool messages returned by store_data.
AIFrags  == [kind : {"ai"}, tc : BOOLEAN, text : BOOLEAN]
ToolFrag == [kind |-> "tool", tc |-> FALSE, text |-> TRUE]

SeqsUpTo(S, lo, hi) == UNION {[1..n -> S] : n \in lo..hi}

Perms(n) == {f \in [1..n -> 1..n] : \A i, j \in 1..n : f[i] = f[j] => i = j}

HasTc(frags)   == \E i \in 1..Len(frags) : frags[i].tc
HasText(frags) == \E i \in 1..Len(frags) : frags[i].text

TextFrag == [kind |-> "ai", tc |-> FALSE, text |-> TRUE]
CallFrag == [kind |-> "ai", tc |-> TRUE, text |-> FALSE]

\* The arguments of a tool-call request.  id is the entryId or memoryId
\* (0: not given), amount is in hundredths of the unit, ts is the timestamp
\* in clock milliseconds (0: not given), content is the memory text,
\* quantity is the quantity text of a food intake as its characters,
\* mealType is the meal type ("": not given).
NoArgs == [id |-> 0, amount |-> 25000, unit |-> "ml", ts |-> 0, content |-> "c1",
           quantity |-> <<"1">>, mealType |-> ""]

Plain(ns) == [i \in 1..Len(ns) |-> NoArgs]

\* A model response: the names and arguments of the requested tools and
\* the fragments it is streamed in.  The assistant message is the
\* concatenation of its chunks, so it has tool calls exactly when some
\* chunk carried one.
\* Spec: every sequence of tool names, streamed as one fragment.
Responses ==
  {[names |-> ns, args |-> Plain(ns),
    frags |-> IF ns = <<>> THEN <<TextFrag>> ELSE <<CallFrag>>] :
     ns \in SeqsUpTo(ToolNames, 0, MaxCalls)}

\* SpecStream: every sequence of fragments, for a plain answer, one
\* registered tool or one unregistered tool.
StreamResponses ==
  {r \in [names : {<<>>, <<"saveWaterIntake">>, <<"deleteMemory">>},
          args : {<<>>, <<NoArgs>>},
          frags : SeqsUpTo(AIFrags, 1, MaxFrags)] :
     /\ (r.names # <<>>) <=> HasTc(r.frags)
     /\ Len(r.args) = Len(r.names)}

\* SpecLoop: a plain answer, or one more saveWaterIntake.
LoopResponses ==
  {[names |-> <<>>, args |-> <<>>, frags |-> <<TextFrag>>],
   [names |-> <<"saveWaterIntake">>, args |-> <<NoArgs>>, frags |-> <<CallFrag>>]}

\* ---------------------------------------------------------------- state
VARIABLES
  chats,        \* prisma.chat rows: [id, userId]
  history,      \* state.messages of the run in progress (or of the last run)
  checkpoint,   \* the checkpointer: thread_id -> saved state.messages
  config,       \* the config of the run: [thread_id, userId]
  prompt,       \* the messages passed to the model at the last invocation
  sys,          \* the memory records put in the system prompt of that invocation
  node,         \* next node of the graph: idle, call_model, store_data, END, error
  failure,      \* why the graph threw: none, model, store, tool_not_found, tool_threw, recursion
  step,         \* supersteps executed in the current run
  run,          \* number of runs started
  requests,     \* POST /reply requests handled
  invocations,  \* boundLLM.invoke calls of the current run
  searches,     \* store.search calls of the current run
  dispatches,   \* store_data executions of the current run
  completion,   \* order in which the handlers of the last dispatch settled
  nextId,       \* tool-call ids handed out so far
  pending,      \* fragments yielded by the graph and not yet read by the route
  events,       \* events written to the response of the current request
  resp,         \* response: none, open (SSE), closed, 400, 401, 500
  reach,        \* what the last dispatch found reachable: [mem, db]
  memories,     \* the memory store: records [ns, key, content]
  waterLog,     \* WaterIntakeLog rows
  foodLog,      \* CaloriesIntakeLog rows
  now,          \* Date.now(), in milliseconds
  token,        \* the Authorization header of the current request
  closed,       \* the client has closed the connection of the current request
  parked,       \* requests whose handler is suspended at an await
  otpStorage,   \* the OTP map: identifier -> [otp, expiresAt, attempts]
  users,        \* prisma.user rows by email: [exists, verified, refreshToken]
  authResp,     \* the last response of the /otp routes, with its request
  refreshes,    \* /otp/refresh-token handlers suspended after reading the user row
  pdf,          \* the /uworld/llm request: its pages, page results and response
  day           \* the last daily query: [route, date, tz, startOfDay, endOfDay]

vars == <<chats, history, checkpoint, config, prompt, sys, node, failure,
          step, run, requests, invocations, searches, dispatches, completion,
          nextId, pending, events, resp, reach, memories, waterLog, foodLog,
          now, token, closed, parked, otpStorage, users, authResp, refreshes,
          pdf, day>>

\* The tables and the store the tool handlers write.
storeVars == <<memories, waterLog, foodLog>>

\* The state of the routes outside the chat: OTP, session, PDF and daily totals.
serviceVars == <<otpStorage, users, authResp, refreshes, pdf, day>>

\* The request as the client and the scheduler see it.
clientVars == <<token, closed, parked>>

\* What a rejected request leaves alone.
runVars == <<history, checkpoint, config, prompt, sys, node, failure, step,
             run, invocations, searches, dispatches, completion, nextId>>

Last(s) == s[Len(s)]

\* ------------------------------------------------------------- messages
\* ref is the record id a tool result names (0: none).
HumanMessage ==
  [type |-> "human", content |-> "text", calls |-> <<>>, tool_call_id |-> 0,
   name |-> "", ref |-> 0]

AIMessage(r, base) ==
  [type |-> "ai",
   content |-> "text",
   calls |-> [i \in 1..Len(r.names) |->
                [name |-> r.names[i], id |-> base + i, args |-> r.args[i]]],
   tool_call_id |-> 0, name |-> "", ref |-> 0]

ToolMessage(tc, out) ==
  [type |-> "tool", content |-> out.text, calls |-> <<>>,
   tool_call_id |-> tc.id, name |-> tc.name, ref |-> out.id]

\* The messages reducer of the graph state: new messages are appended.
GraphAnnotation(left, right) == left \o right

\* -------------------------------------------------------- configuration
\* The config the route builds has thread_id and userId; "" stands for a
\* key that is absent.
NoConfig == [thread_id |-> "", userId |-> ""]

\* ensureConfiguration: every absent (falsy) key gets its default.  The
\* thread id is read from the key threadId, which the route never sets.
ensureConfiguration(cfg) ==
  [thread_id |-> "default",
   userId    |-> IF cfg.userId = "" THEN "default" ELSE cfg.userId]

\* ---------------------------------------------------------------- tools
\* The stores as one value, so that a handler maps a store to a store.
Stores == [memories |-> memories, waterLog |-> waterLog, foodLog |-> foodLog]

\* uuid(): an id no record uses yet.
uuidv4(used) == CHOOSE n \in 1..(Cardinality(used) + 1) : n \notin used

\* Math.round of the quotient n / d of two naturals.
MathRound(n, d) == n \div d + (IF 2 * (n % d) >= d THEN 1 ELSE 0)

\* unit.toLowerCase().trim() on the unit strings of the model.
toLowerCaseTrim(unit) ==
  CASE unit = " OZ " -> "oz"
    [] unit = "Cups" -> "cups"
    [] OTHER -> unit

OunceNames == {"oz", "fl oz", "fluid ounce", "fluid ounces", "ounce", "ounces"}

\* A normalisation to the metric unit alone.
normalizeWaterUnitMetric(unit) == "ml"

normalizeWaterUnit(unit) ==
  LET normalizedUnit == toLowerCaseTrim(unit) IN
    IF normalizedUnit \in {"ml", "milliliter", "milliliters"} THEN "ml"
    ELSE IF normalizedUnit \in OunceNames THEN "oz"
    ELSE IF normalizedUnit \in {"cup", "cups"} THEN "ml"
    ELSE IF normalizedUnit \in {"liter", "liters", "l"} THEN "ml"
    ELSE "ml"

\* A conversion with the cup of 240 ml.
convertWaterAmountCup240(amount, fromUnit, toUnit) ==
  LET normalizedFromUnit == toLowerCaseTrim(fromUnit)
      mlAmount ==
        IF normalizedFromUnit \in OunceNames THEN amount * 295735
        ELSE IF normalizedFromUnit \in {"cup", "cups"} THEN amount * 240 * 10000
        ELSE IF normalizedFromUnit \in {"liter", "liters", "l"} THEN amount * 1000 * 10000
        ELSE amount * 10000
  IN  IF toUnit = "oz" THEN MathRound(mlAmount, 295735)
      ELSE MathRound(mlAmount, 1000000) * 100

\* convertWaterAmount.  amount and the result are in hundredths; mlAmount
\* is kept in units of 10^-6 ml, so that 29.5735 is the integer 295735.
convertWaterAmount(amount, fromUnit, toUnit) ==
  LET normalizedFromUnit == toLowerCaseTrim(fromUnit)
      mlAmount ==
        IF normalizedFromUnit \in OunceNames THEN amount * 295735
        ELSE IF normalizedFromUnit \in {"cup", "cups"} THEN amount * 250 * 10000
        ELSE IF normalizedFromUnit \in {"liter", "liters", "l"} THEN amount * 1000 * 10000
        ELSE amount * 10000
  IN  IF toUnit = "oz" THEN MathRound(mlAmount, 295735)
      ELSE MathRound(mlAmount, 1000000) * 100

\* The result of a handler: the string it returns (text, and the id the
\* string names) and the stores as it leaves them.
Throw == "__throw__"

Result(text, id, db) == [text |-> text, id |-> id, db |-> db]

\* The userId column references User.id; every user that can authenticate
\* has a row, the substitute "default" has none.
UserExists(userId) == userId \in AllUsers

\* A handler that always writes under a fresh key.
upsertMemoryFresh(args, cfg, storeOk, db) ==
  LET configurable == ensureConfiguration(cfg)
      memId == uuidv4({m.key : m \in db.memories})
      ns    == <<"memories", configurable.userId>>
      rec   == [ns |-> ns, key |-> memId, content |-> args.content]
  IN  IF ~storeOk THEN Result(Throw, 0, db)
      ELSE Result("Stored memory", memId,
                  [db EXCEPT !.memories =
                     {m \in @ : ~(m.ns = ns /\ m.key = memId)} \cup {rec}])

\* upsertMemory: the key is the memoryId when one is given, else a fresh
\* uuid; store.put writes the record under the namespace of the userId of
\* the configuration, replacing a record with the same key.  store.put is
\* awaited outside any try, a rejection leaves the handler as a rejection.
upsertMemory(args, cfg, storeOk, db) ==
  LET configurable == ensureConfiguration(cfg)
      memId == IF args.id # 0 THEN args.id
               ELSE uuidv4({m.key : m \in db.memories})
      ns    == <<"memories", configurable.userId>>
      rec   == [ns |-> ns, key |-> memId, content |-> args.content]
  IN  IF ~storeOk THEN Result(Throw, 0, db)
      ELSE Result("Stored memory", memId,
                  [db EXCEPT !.memories =
                     {m \in @ : ~(m.ns = ns /\ m.key = memId)} \cup {rec}])

\* ------------------------------------------------------ quantity text
\* A text is the sequence of its characters.  An optional text is null or
\* a text; an optional number is Null or a natural.
NullText == [null |-> TRUE, text |-> <<>>]
Text(s)  == [null |-> FALSE, text |-> s]
Null     == -1

Digits == {"0", "1", "2", "3", "4", "5", "6", "7", "8", "9"}

DigitValue(c) ==
  CASE c = "0" -> 0 [] c = "1" -> 1 [] c = "2" -> 2 [] c = "3" -> 3
    [] c = "4" -> 4 [] c = "5" -> 5 [] c = "6" -> 6 [] c = "7" -> 7
    [] c = "8" -> 8 [] c = "9" -> 9

\* \s of the pattern, on the characters of the model.
Whitespace == {" "}

\* The index after the longest run of characters of set cs that starts
\* at index i of text s.
RECURSIVE RunEnd(_, _, _)
RunEnd(s, i, cs) ==
  IF i <= Len(s) /\ s[i] \in cs THEN RunEnd(s, i + 1, cs) ELSE i

\* The index before the longest run of characters of set cs that ends at
\* index i of text s.
RECURSIVE RunStart(_, _, _)
RunStart(s, i, cs) ==
  IF i >= 1 /\ s[i] \in cs THEN RunStart(s, i - 1, cs) ELSE i

\* String.prototype.trim.
trim(s) == SubSeq(s, RunEnd(s, 1, Whitespace), RunStart(s, Len(s), Whitespace))

\* Numbers with a fraction are kept as multiples of 1/Scale.
Scale == 10000

Pow10(n) == CASE n = 0 -> 1 [] n = 1 -> 10 [] n = 2 -> 100 [] n = 3 -> 1000
              [] OTHER -> 10000

\* The natural a run of digits denotes.
RECURSIVE Natural(_)
Natural(ds) ==
  IF ds = <<>> THEN 0
  ELSE 10 * Natural(SubSeq(ds, 1, Len(ds) - 1)) + DigitValue(ds[Len(ds)])

\* parseFloat of digits, or of digits "." digits: the value times Scale.
parseFloat(s) ==
  LET intEnd == RunEnd(s, 1, Digits)
      whole  == SubSeq(s, 1, intEnd - 1)
      frac   == SubSeq(s, intEnd + 1, Len(s))
  IN  Natural(whole) * Scale
        + (Natural(frac) * Scale) \div Pow10(Len(frac))

\* quantity.match(/^(\d+(?:\.\d+)?)\s*(.*)$/): null, or the two groups.
NoMatch == [matched |-> FALSE, number |-> <<>>, rest |-> <<>>]

quantityMatch(quantity) ==
  LET intEnd  == RunEnd(quantity, 1, Digits)
      fracEnd == RunEnd(quantity, intEnd + 1, Digits)
      numEnd  == IF /\ intEnd <= Len(quantity)
                    /\ quantity[intEnd] = "."
                    /\ fracEnd > intEnd + 1
                 THEN fracEnd ELSE intEnd
      restAt  == RunEnd(quantity, numEnd, Whitespace)
  IN  IF intEnd = 1 THEN NoMatch
      ELSE [matched |-> TRUE,
            number  |-> SubSeq(quantity, 1, numEnd - 1),
            rest    |-> SubSeq(quantity, restAt, Len(quantity))]

\* quantityMatch ? parseFloat(quantityMatch[1]) : null
quantityValue(quantity) ==
  LET m == quantityMatch(quantity) IN
    IF m.matched THEN parseFloat(m.number) ELSE Null

\* quantityMatch ? quantityMatch[2].trim() || null : quantity
quantityUnit(quantity) ==
  LET m == quantityMatch(quantity) IN
    IF m.matched
    THEN IF trim(m.rest) = <<>> THEN NullText ELSE Text(trim(m.rest))
    ELSE Text(quantity)

\* The quantity column is Decimal(6, 2): the value the string denotes,
\* rounded to hundredths.
Decimal2(value) == MathRound(value, Scale \div 100)

\* A column that keeps null when the text has no leading number.
storedQuantityOrNull(value) == IF value = Null THEN Null ELSE Decimal2(value)

\* quantityValue?.toString() || "1", as the column stores it (hundredths).
\* The string of a number is never empty, only null gives "1".
storedQuantity(value) == IF value = Null THEN 100 ELSE Decimal2(value)

\* ------------------------------------------------------------ meal type
HourMs == 3600000

\* Date.getHours of a timestamp, the clock being read in local time.
getHours(t) == (t \div HourMs) % 24

MealTypes == {"breakfast", "lunch", "dinner", "snack"}

\* A rule whose windows end one hour late.
determineMealTypeLate(timestamp) ==
  LET hour == getHours(timestamp) IN
    IF hour >= 5 /\ hour <= 11 THEN "breakfast"
    ELSE IF hour > 11 /\ hour <= 16 THEN "lunch"
    ELSE IF hour > 16 /\ hour <= 22 THEN "dinner"
    ELSE "snack"

determineMealTypeFromTime(timestamp) ==
  LET hour == getHours(timestamp) IN
    IF hour >= 5 /\ hour < 11 THEN "breakfast"
    ELSE IF hour >= 11 /\ hour < 16 THEN "lunch"
    ELSE IF hour >= 16 /\ hour < 22 THEN "dinner"
    ELSE "snack"

\* ----------------------------------------------------------- food intake
\* The data of prisma.caloriesIntakeLog.create.
foodData(args, userId, id, t) ==
  [id         |-> id,
   userId     |-> userId,
   quantity   |-> storedQuantity(quantityValue(args.quantity)),
   unit       |-> quantityUnit(args.quantity),
   mealType   |-> IF args.mealType # "" THEN args.mealType
                  ELSE determineMealTypeFromTime(IF args.ts # 0 THEN args.ts ELSE t),
   consumedAt |-> IF args.ts # 0 THEN args.ts ELSE t,
   source     |-> "conversation"]

\* A handler that also keeps what was eaten as a memory of the user.
saveFoodIntakeRemembers(args, cfg, dbOk, db, t) ==
  LET userId == ensureConfiguration(cfg).userId
      id     == uuidv4({e.id : e \in db.foodLog})
      rec    == [ns |-> <<"memories", userId>>,
                 key |-> uuidv4({m.key : m \in db.memories}),
                 content |-> "c1"]
  IN  IF userId = "" \/ ~dbOk \/ ~UserExists(userId)
      THEN Result("some error occurred while saving food intake", 0, db)
      ELSE Result("Stored food intake", id,
                  [db EXCEPT !.foodLog = @ \cup {foodData(args, userId, id, t)},
                             !.memories = @ \cup {rec}])

\* A handler without the catch: a storage failure leaves it as a rejection.
saveFoodIntakeThrows(args, cfg, dbOk, db, t) ==
  LET userId == ensureConfiguration(cfg).userId
      id     == uuidv4({e.id : e \in db.foodLog})
  IN  IF userId = "" \/ ~dbOk \/ ~UserExists(userId)
      THEN Result(Throw, 0, db)
      ELSE Result("Stored food intake", id,
                  [db EXCEPT !.foodLog = @ \cup {foodData(args, userId, id, t)}])

\* saveFoodIntake: one row is created for the userId of the configuration.
\* The whole body is inside try/catch, the catch returns the error string.
saveFoodIntake(args, cfg, dbOk, db, t) ==
  LET userId == ensureConfiguration(cfg).userId
      id     == uuidv4({e.id : e \in db.foodLog})
  IN  IF userId = "" \/ ~dbOk \/ ~UserExists(userId)
      THEN Result("some error occurred while saving food intake", 0, db)
      ELSE Result("Stored food intake", id,
                  [db EXCEPT !.foodLog = @ \cup {foodData(args, userId, id, t)}])

\* A handler that ignores the entryId and creates a row on every call.
saveWaterIntakeCreate(args, cfg, dbOk, db, t) ==
  LET userId     == ensureConfiguration(cfg).userId
      consumedAt == IF args.ts # 0 THEN args.ts ELSE t
      normalizedUnit   == normalizeWaterUnit(args.unit)
      normalizedAmount == convertWaterAmount(args.amount, args.unit, normalizedUnit)
      id      == uuidv4({e.id : e \in db.waterLog})
      row     == [id |-> id, userId |-> userId, amount |-> normalizedAmount,
                  unit |-> normalizedUnit, consumedAt |-> consumedAt,
                  source |-> "conversation"]
      failed  == Result("some error occurred while saving water intake", 0, db)
  IN  IF userId = "" \/ ~dbOk \/ ~UserExists(userId) THEN failed
      ELSE Result("Stored water intake", id,
                  [db EXCEPT !.waterLog = @ \cup {row}])

\* saveWaterIntake: with an entryId the row with that id is updated
\* (prisma update rejects when there is none), without one a row is
\* created for the userId of the configuration.  The whole body is inside
\* try/catch, the catch returns the error string.
saveWaterIntake(args, cfg, dbOk, db, t) ==
  LET userId     == ensureConfiguration(cfg).userId
      consumedAt == IF args.ts # 0 THEN args.ts ELSE t
      normalizedUnit   == normalizeWaterUnit(args.unit)
      normalizedAmount == convertWaterAmount(args.amount, args.unit, normalizedUnit)
      data(e) == [e EXCEPT !.amount = normalizedAmount, !.unit = normalizedUnit,
                           !.consumedAt = consumedAt, !.source = "conversation"]
      id      == uuidv4({e.id : e \in db.waterLog})
      row     == [id |-> id, userId |-> userId, amount |-> normalizedAmount,
                  unit |-> normalizedUnit, consumedAt |-> consumedAt,
                  source |-> "conversation"]
      failed  == Result("some error occurred while saving water intake", 0, db)
  IN  IF userId = "" \/ ~dbOk THEN failed
      ELSE IF args.id # 0
      THEN IF \E e \in db.waterLog : e.id = args.id
           THEN Result("Updated water intake", args.id,
                       [db EXCEPT !.waterLog =
                          {IF e.id = args.id THEN data(e) ELSE e : e \in @}])
           ELSE failed
      ELSE IF ~UserExists(userId) THEN failed
      ELSE Result("Stored water intake", id,
                  [db EXCEPT !.waterLog = @ \cup {row}])

\* ------------------------------------------------------------ OTP store
\* The identifiers that pass isValidEmail, and one that does not.
Identifiers    == {"a@x.io", "demo@abc.com"}
BadIdentifiers == {"nobody"}

\* generateOTP: a number from 100000 to 999999 as a string; one of them
\* stands for all.  A client may also submit a six-digit code that was not
\* generated, the demo code, which is never generated, or a code that is
\* not six characters long.
Codes      == {"111111"}
WrongCodes == {"999999"}
DemoOtp    == "000000"
ShortCodes == {"12345"}
Submitted  == Codes \cup WrongCodes \cup {DemoOtp} \cup ShortCodes

DemoIdentifier == "demo@abc.com"

\* 5 * 60 * 1000
OtpTtl == 300000

\* An identifier without an entry in otpStorage.
NoOtp == [otp |-> "", expiresAt |-> 0, attempts |-> 0]

\* jwt.sign({userId, email, type: "refresh"}, secret, {expiresIn: "7d"}):
\* the token is a function of the payload and of iat, the issue time in
\* whole seconds.  The 7 days of validity are beyond every time bound here.
NoRefresh == [userId |-> "", iat |-> -1]
generateRefreshToken(userId, t) == [userId |-> userId, iat |-> t \div 1000]

\* A token that verifyRefreshToken rejects (bad signature).
ForgedRefresh(userId) == [userId |-> userId, iat |-> -2]
verifyRefreshToken(tok) == tok.iat >= 0

\* bcrypt.compare(token, bcrypt.hash(other)): the stored hash is kept as the
\* token it was computed from.
bcryptCompare(tok, stored) == tok = stored

\* An email without a User row; createNewUser makes an unverified row.
NoUser  == [exists |-> FALSE, verified |-> FALSE, refreshToken |-> NoRefresh]
NewUser == [exists |-> TRUE, verified |-> FALSE, refreshToken |-> NoRefresh]

\* One response of an /otp route, with the request it answers.
Response(route, identifier, otp, status, message, presented, tok) ==
  [route |-> route, identifier |-> identifier, otp |-> otp, status |-> status,
   message |-> message, presented |-> presented, token |-> tok]

NoResponse == Response("", "", "", 0, "", NoRefresh, NoRefresh)

\* ------------------------------------------------------------ PDF, day
\* No /uworld/llm request yet.
NoPdf == [phase |-> "idle", split |-> FALSE, pages |-> <<>>, results |-> <<>>,
          status |-> 0, totalPages |-> 0, successfulPages |-> 0, failedPages |-> 0,
          combinedData |-> 0, webhook |-> "none"]

\* No daily query yet.
NoDay == [route |-> "", date |-> 0, tz |-> 0, startOfDay |-> 0, endOfDay |-> 0,
          entries |-> {}, entryCount |-> 0]

\* ------------------------------------------------------- authentication
\* The User rows: AllUsers are verified, one user is not, and one id has
\* no row.
UnverifiedUsers == {"u3"}
UnknownUsers    == {"u4"}

\* An Authorization header: absent, or a bearer token that jwt.verify
\* accepts (signed with the access secret, not expired) or not, with the
\* userId it carries.
NoToken == [present |-> FALSE, valid |-> FALSE, userId |-> ""]

Tokens ==
  {NoToken}
  \cup [present : {TRUE}, valid : BOOLEAN,
        userId : AllUsers \cup UnverifiedUsers \cup UnknownUsers]

AccessToken(u) == [present |-> TRUE, valid |-> TRUE, userId |-> u]

Unauthorized == [status |-> 401, userId |-> ""]

\* A middleware that does not look at the verified flag.
authenticateTokenAnyUser(tok, dbOk) ==
  IF ~tok.present THEN Unauthorized
  ELSE IF ~tok.valid \/ ~dbOk THEN Unauthorized
  ELSE IF tok.userId \in UnknownUsers THEN Unauthorized
  ELSE [status |-> 200, userId |-> tok.userId]

\* authenticateToken: 401 without a token, 401 from the catch when
\* jwt.verify or the user lookup throws, 401 when the user has no row or
\* is not verified; else req.user is the row's id and next() is called.
authenticateToken(tok, dbOk) ==
  IF ~tok.present THEN Unauthorized
  ELSE IF ~tok.valid \/ ~dbOk THEN Unauthorized
  ELSE IF tok.userId \in UnknownUsers \/ tok.userId \in UnverifiedUsers
  THEN Unauthorized
  ELSE [status |-> 200, userId |-> tok.userId]


\* A rejected promise, in the shape of a message so that it can sit in
\* the same array as the tool messages.
Rejected ==
  [type |-> "rejected", content |-> Throw, calls |-> <<>>, tool_call_id |-> 0,
   name |-> "", ref |-> 0]

\* tool.invoke(tc): runs the handler of the named tool and wraps the string
\* it returns in a tool message carrying the id of the request; a handler
\* that throws makes the invocation reject.
toolInvoke(tc, cfg, up, db, t) ==
  LET out == CASE tc.name = "upsertMemory"    -> upsertMemory(tc.args, cfg, up.mem, db)
               [] tc.name = "saveFoodIntake"  -> saveFoodIntake(tc.args, cfg, up.db, db, t)
               [] tc.name = "saveWaterIntake" -> saveWaterIntake(tc.args, cfg, up.db, db, t)
  IN  [msg |-> IF out.text = Throw THEN Rejected ELSE ToolMessage(tc, out),
       db  |-> out.db]

\* A callback that answers an unknown name with an error-shaped result.
DispatchLenient(tc, cfg, up, db, t) ==
  IF tc.name \notin initializeTools
  THEN [msg |-> ToolMessage(tc, [text |-> "tool not found", id |-> 0]), db |-> db]
  ELSE toolInvoke(tc, cfg, up, db, t)

\* The callback storeData maps over the tool calls: look the tool up by
\* name, throw when it is missing, else invoke it.
Dispatch(tc, cfg, up, db, t) ==
  IF tc.name \notin initializeTools THEN [msg |-> Rejected, db |-> db]
  ELSE toolInvoke(tc, cfg, up, db, t)

\* toolCalls.map(async ...): every callback runs, whether or not another
\* one throws; their store accesses take effect in the order `order`, from
\* its k-th element on.  outs[i] is what the i-th promise settles to.
RECURSIVE mapToolCalls(_, _, _, _, _, _, _)
mapToolCalls(toolCalls, order, k, cfg, up, db, t) ==
  IF k > Len(toolCalls)
  THEN [outs |-> [i \in 1..Len(toolCalls) |-> Rejected], db |-> db]
  ELSE LET i    == order[k]
           r    == Dispatch(toolCalls[i], cfg, up, db, t)
           rest == mapToolCalls(toolCalls, order, k + 1, cfg, up, r.db, t)
       IN  [outs |-> [j \in 1..Len(toolCalls) |->
                        IF j = i THEN r.msg ELSE rest.outs[j]],
            db   |-> rest.db]

\* A join that collects the values as the handlers settle.
PromiseAllSettleOrder(outs, order) ==
  [k \in 1..Len(outs) |-> outs[order[k]]]

\* Promise.all: the handlers settle in the order `order`; the array it
\* resolves to holds the value of the i-th promise at index i.
PromiseAll(outs, order) ==
  LET settled == [k \in 1..Len(outs) |-> outs[order[k]]]
      pos(i)  == CHOOSE k \in 1..Len(outs) : order[k] = i
  IN  [i \in 1..Len(outs) |-> settled[pos(i)]]

\* A route that needs more than one tool call to dispatch.
routeMessageMany(msgs) ==
  IF Len(Last(msgs).calls) > 1 THEN "store_data" ELSE END

\* A route that dispatches after every model response.
routeMessageAlways(msgs) == "store_data"

\* routeMessage: store_data when the last message has tool calls, else END.
routeMessage(msgs) ==
  IF Len(Last(msgs).calls) # 0 THEN "store_data" ELSE END

\* A runner without a superstep budget.
tickUnbounded(s) == "running"

\* The loop of the graph runner: a superstep runs while the budget lasts.
tick(s) == IF s >= RecursionLimit THEN "out_of_steps" ELSE "running"

\* Reachability of the two backing stores, as one store access finds it.
Reach == [mem : BOOLEAN, db : BOOLEAN]
AllUp == [mem |-> TRUE, db |-> TRUE]

\* The limit callModel passes to store.search.
SearchLimit == 10

IsPrefix(p, s) == Len(p) <= Len(s) /\ SubSeq(s, 1, Len(p)) = p

\* A search that ignores the namespace.
searchAll(mems, namespacePrefix, limit) ==
  IF Cardinality(mems) <= limit THEN mems
  ELSE {m \in mems : Cardinality({o \in mems : o.key < m.key}) < limit}

\* store.search(namespacePrefix, {limit}): the records whose namespace
\* starts with the prefix, at most `limit` of them (the first by key).
search(mems, namespacePrefix, limit) ==
  LET found == {m \in mems : IsPrefix(namespacePrefix, m.ns)} IN
    IF Cardinality(found) <= limit THEN found
    ELSE {m \in found : Cardinality({o \in found : o.key < m.key}) < limit}

\* ----------------------------------------------------------------- Init
Init ==
  /\ chats = {}
  /\ history = <<>>
  /\ checkpoint = [t \in AllThreads |-> <<>>]
  /\ config = NoConfig
  /\ prompt = <<>>
  /\ sys = {}
  /\ node = "idle"
  /\ failure = "none"
  /\ step = 0
  /\ run = 0
  /\ requests = 0
  /\ invocations = 0
  /\ searches = 0
  /\ dispatches = 0
  /\ completion = <<>>
  /\ nextId = 0
  /\ pending = <<>>
  /\ events = <<>>
  /\ resp = "none"
  /\ reach = AllUp
  /\ memories = {}
  /\ waterLog = {}
  /\ foodLog = {}
  /\ now = 1
  /\ token = NoToken
  /\ closed = FALSE
  /\ parked = <<>>
  /\ otpStorage = [i \in Identifiers |-> NoOtp]
  /\ users = [i \in Identifiers |-> NoUser]
  /\ authResp = NoResponse
  /\ refreshes = <<>>
  /\ pdf = NoPdf
  /\ day = NoDay

\* -------------------------------------------------------------- gateway
\* A route that builds a config without the thread id: every run starts
\* from an empty state.
PostReplyNoThread(u, t, hasMsg, dbOk) ==
  /\ resp # "open"
  /\ requests' = requests + 1
  /\ events' = <<>>
  /\ pending' = <<>>
  /\ IF t = ""
     THEN /\ resp' = "400"
          /\ UNCHANGED <<chats, runVars>>
     ELSE IF ~dbOk \/ (\E c \in chats : c.id = t /\ c.userId # u)
     THEN /\ resp' = "500"
          /\ UNCHANGED <<chats, runVars>>
     ELSE /\ chats' = chats \cup {[id |-> t, userId |-> u]}
          /\ IF ~hasMsg
             THEN /\ resp' = "400"
                  /\ UNCHANGED runVars
             ELSE /\ resp' = "open"
                  /\ config' = [thread_id |-> t, userId |-> u]
                  /\ history' = GraphAnnotation(<<>>, <<HumanMessage>>)
                  /\ checkpoint' = [checkpoint EXCEPT ![t] = history']
                  /\ node' = "call_model"
                  /\ failure' = "none"
                  /\ step' = 0
                  /\ run' = run + 1
                  /\ invocations' = 0
                  /\ searches' = 0
                  /\ dispatches' = 0
                  /\ completion' = <<>>
                  /\ UNCHANGED <<prompt, sys, nextId>>
  /\ reach' = AllUp
  /\ closed' = FALSE
  /\ UNCHANGED <<storeVars, serviceVars, now, parked>>

\* A route that looks the thread up by its id alone and runs on it
\* whoever owns it.
PostReplyAnyUser(u, t, hasMsg, dbOk) ==
  /\ resp # "open"
  /\ requests' = requests + 1
  /\ events' = <<>>
  /\ pending' = <<>>
  /\ IF t = ""
     THEN /\ resp' = "400"
          /\ UNCHANGED <<chats, runVars>>
     ELSE IF ~dbOk
     THEN /\ resp' = "500"
          /\ UNCHANGED <<chats, runVars>>
     ELSE /\ chats' = IF \E c \in chats : c.id = t THEN chats
                      ELSE chats \cup {[id |-> t, userId |-> u]}
          /\ IF ~hasMsg
             THEN /\ resp' = "400"
                  /\ UNCHANGED runVars
             ELSE /\ resp' = "open"
                  /\ config' = [thread_id |-> t, userId |-> u]
                  /\ history' = GraphAnnotation(checkpoint[t], <<HumanMessage>>)
                  /\ checkpoint' = [checkpoint EXCEPT ![t] = history']
                  /\ node' = "call_model"
                  /\ failure' = "none"
                  /\ step' = 0
                  /\ run' = run + 1
                  /\ invocations' = 0
                  /\ searches' = 0
                  /\ dispatches' = 0
                  /\ completion' = <<>>
                  /\ UNCHANGED <<prompt, sys, nextId>>
  /\ reach' = AllUp
  /\ closed' = FALSE
  /\ UNCHANGED <<storeVars, serviceVars, now, parked>>

\* prisma.chat.findUnique({where: {id, userId}}): the row, or null.
findUnique(u, t) ==
  IF \E c \in chats : c.id = t /\ c.userId = u THEN "found" ELSE "absent"

\* A Chat table without the primary key on id: create never rejects.
HandlerNoKey(u, t, hasMsg, dbOk, chat) ==
  /\ resp # "open"
  /\ requests' = requests + 1
  /\ events' = <<>>
  /\ pending' = <<>>
  /\ IF t = ""
     THEN /\ resp' = "400"
          /\ UNCHANGED <<chats, runVars>>
     ELSE IF ~dbOk
     THEN /\ resp' = "500"
          /\ UNCHANGED <<chats, runVars>>
     ELSE /\ chats' = IF chat = "absent"
                      THEN chats \cup {[id |-> t, userId |-> u]}
                      ELSE chats
          /\ IF ~hasMsg
             THEN /\ resp' = "400"
                  /\ UNCHANGED runVars
             ELSE /\ resp' = "open"
                  /\ config' = [thread_id |-> t, userId |-> u]
                  /\ history' = GraphAnnotation(checkpoint[t], <<HumanMessage>>)
                  /\ checkpoint' = [checkpoint EXCEPT ![t] = history']
                  /\ node' = "call_model"
                  /\ failure' = "none"
                  /\ step' = 0
                  /\ run' = run + 1
                  /\ invocations' = 0
                  /\ searches' = 0
                  /\ dispatches' = 0
                  /\ completion' = <<>>
                  /\ UNCHANGED <<prompt, sys, nextId>>
  /\ reach' = AllUp
  /\ closed' = FALSE
  /\ UNCHANGED <<storeVars, serviceVars, now, serviceVars>>

\* The handler of POST /reply from the result of the chat lookup up to
\* the call of graph.stream: validation, the thread record (create
\* rejects when a row with the id exists, and the handler with it), the
\* SSE headers, the config, and the input message entering the state the
\* checkpointer holds for the thread.
Handler(u, t, hasMsg, dbOk, chat) ==
  /\ resp # "open"
  /\ requests' = requests + 1
  /\ events' = <<>>
  /\ pending' = <<>>
  /\ IF t = ""
     THEN /\ resp' = "400"
          /\ UNCHANGED <<chats, runVars>>
     ELSE IF ~dbOk \/ (chat = "absent" /\ \E c \in chats : c.id = t)
     THEN \* findUnique or create rejects: the route handler rejects
          /\ resp' = "500"
          /\ UNCHANGED <<chats, runVars>>
     ELSE /\ chats' = IF chat = "absent"
                      THEN chats \cup {[id |-> t, userId |-> u]}
                      ELSE chats
          /\ IF ~hasMsg
             THEN /\ resp' = "400"
                  /\ UNCHANGED runVars
             ELSE /\ resp' = "open"
                  /\ config' = [thread_id |-> t, userId |-> u]
                  /\ history' = GraphAnnotation(checkpoint[t], <<HumanMessage>>)
                  /\ checkpoint' = [checkpoint EXCEPT ![t] = history']
                  /\ node' = "call_model"
                  /\ failure' = "none"
                  /\ step' = 0
                  /\ run' = run + 1
                  /\ invocations' = 0
                  /\ searches' = 0
                  /\ dispatches' = 0
                  /\ completion' = <<>>
                  /\ UNCHANGED <<prompt, sys, nextId>>
  /\ reach' = AllUp
  /\ closed' = FALSE
  /\ UNCHANGED <<storeVars, serviceVars, now, serviceVars>>

\* POST /reply when nothing else runs between the chat lookup and the
\* create: the lookup sees the table as the create finds it.
PostReply(u, t, hasMsg, dbOk) ==
  /\ Handler(u, t, hasMsg, dbOk, findUnique(u, t))
  /\ UNCHANGED parked

\* router.post("/", authenticateToken, handler): the middleware answers
\* 401 itself, or hands the request with req.user to the handler.
Route(tok, t, hasMsg, authOk, dbOk) ==
  /\ token' = tok
  /\ LET auth == authenticateToken(tok, authOk) IN
       IF auth.status = 401
       THEN /\ resp # "open"
            /\ requests' = requests + 1
            /\ resp' = "401"
            /\ events' = <<>>
            /\ pending' = <<>>
            /\ closed' = FALSE
            /\ reach' = AllUp
            /\ UNCHANGED <<chats, runVars, storeVars, serviceVars, now, parked>>
       ELSE PostReply(auth.userId, t, hasMsg, dbOk)

\* A loop that writes every assistant chunk, tool-call chunks included.
ForwardEveryChunk ==
  /\ resp = "open"
  /\ pending # <<>>
  /\ LET message == Head(pending) IN
       IF message.kind = "ai"
       THEN events' = Append(events, [type |-> "message", id |-> now, frag |-> message])
       ELSE UNCHANGED events
  /\ pending' = Tail(pending)
  /\ UNCHANGED <<chats, runVars, requests, clientVars, resp, reach, storeVars, serviceVars, now, serviceVars>>

\* A loop that writes an assistant chunk only when its content is not empty.
ForwardTextOnly ==
  /\ resp = "open"
  /\ pending # <<>>
  /\ LET message == Head(pending) IN
       IF message.kind = "ai" /\ message.tc
       THEN UNCHANGED events
       ELSE IF message.kind = "ai" /\ message.text
       THEN events' = Append(events, [type |-> "message", id |-> now, frag |-> message])
       ELSE UNCHANGED events
  /\ pending' = Tail(pending)
  /\ UNCHANGED <<chats, runVars, requests, clientVars, resp, reach, storeVars, serviceVars, now, serviceVars>>

\* One pass of the for-await loop over the stream: a chunk with tool-call
\* chunks is logged, any other assistant chunk is written as a message
\* event whose id is Date.now(), anything else is skipped.
Forward ==
  /\ resp = "open"
  /\ pending # <<>>
  /\ LET message == Head(pending) IN
       IF message.kind = "ai" /\ message.tc
       THEN UNCHANGED events
       ELSE IF message.kind = "ai"
       THEN events' = Append(events, [type |-> "message", id |-> now, frag |-> message])
       ELSE UNCHANGED events
  /\ pending' = Tail(pending)
  /\ UNCHANGED <<chats, runVars, requests, clientVars, resp, reach, storeVars, serviceVars, now, serviceVars>>

NoFrag == [kind |-> "none", tc |-> FALSE, text |-> FALSE]

\* The terminal events carry no id.
NoId == 0

\* A completion that writes the event and leaves the response open.
CompleteWithoutEnd ==
  /\ resp = "open"
  /\ node = END
  /\ pending = <<>>
  /\ events' = Append(events, [type |-> "complete", id |-> NoId, frag |-> NoFrag])
  /\ UNCHANGED <<chats, runVars, requests, clientVars, pending, resp, reach, storeVars, serviceVars, now, serviceVars>>

\* The stream is exhausted: the complete event, then res.end().
Complete ==
  /\ resp = "open"
  /\ node = END
  /\ pending = <<>>
  /\ events' = Append(events, [type |-> "complete", id |-> NoId, frag |-> NoFrag])
  /\ resp' = "closed"
  /\ UNCHANGED <<chats, runVars, requests, clientVars, pending, reach, storeVars, serviceVars, now, serviceVars>>

\* The stream throws: the catch writes the error event, then res.end().
\* Fragments still queued when the stream fails are never read.
ErrorEvent ==
  /\ resp = "open"
  /\ node = "error"
  /\ events' = Append(events, [type |-> "error", id |-> NoId, frag |-> NoFrag])
  /\ pending' = <<>>
  /\ resp' = "closed"
  /\ UNCHANGED <<chats, runVars, requests, clientVars, reach, storeVars, serviceVars, now, serviceVars>>

\* The clock advances by one millisecond.
Tick ==
  /\ now' = now + 1
  /\ UNCHANGED <<chats, runVars, requests, clientVars, pending, events, resp, reach,
                 storeVars, serviceVars>>

\* The client closes the connection.  The route registers no listener
\* for it and never looks at the state of the response.
ClientClose ==
  /\ resp = "open"
  /\ ~closed
  /\ closed' = TRUE
  /\ UNCHANGED <<chats, runVars, requests, pending, events, resp, reach,
                 storeVars, serviceVars, now, token, parked>>

\* What belongs to one request: the state of its run and its response.
Task ==
  [history |-> history, config |-> config, prompt |-> prompt, sys |-> sys,
   node |-> node, failure |-> failure, step |-> step,
   invocations |-> invocations, searches |-> searches,
   dispatches |-> dispatches, completion |-> completion,
   pending |-> pending, events |-> events, token |-> token,
   closed |-> closed, chat |-> "found"]

\* The handler of the request in progress is suspended at an await: the
\* event loop is free to start the handler of another request.
Park ==
  /\ resp = "open"
  /\ parked' = Append(parked, Task)
  /\ resp' = "none"
  /\ node' = "idle"
  /\ UNCHANGED <<chats, history, checkpoint, config, prompt, sys, failure,
                 step, run, requests, invocations, searches, dispatches,
                 completion, nextId, pending, events, reach, storeVars, serviceVars, now,
                 token, closed>>

\* The event loop goes on with a suspended handler.
Resume(i) ==
  /\ resp # "open"
  /\ i \in 1..Len(parked)
  /\ parked[i].node # "find_chat"
  /\ LET p == parked[i] IN
       /\ history' = p.history
       /\ config' = p.config
       /\ prompt' = p.prompt
       /\ sys' = p.sys
       /\ node' = p.node
       /\ failure' = p.failure
       /\ step' = p.step
       /\ invocations' = p.invocations
       /\ searches' = p.searches
       /\ dispatches' = p.dispatches
       /\ completion' = p.completion
       /\ pending' = p.pending
       /\ events' = p.events
       /\ token' = p.token
       /\ closed' = p.closed
  /\ resp' = "open"
  /\ parked' = SubSeq(parked, 1, i - 1) \o SubSeq(parked, i + 1, Len(parked))
  /\ UNCHANGED <<chats, checkpoint, run, requests, nextId, reach, storeVars, serviceVars, now, serviceVars>>

\* The handler of a request of user u on thread t awaits the chat lookup:
\* it is suspended with the result the table gives at this moment.
FindChat(u, t) ==
  /\ parked' = Append(parked,
       [history |-> <<>>, config |-> [thread_id |-> t, userId |-> u],
        prompt |-> <<>>, sys |-> {}, node |-> "find_chat", failure |-> "none",
        step |-> 0, invocations |-> 0, searches |-> 0, dispatches |-> 0,
        completion |-> <<>>, pending |-> <<>>, events |-> <<>>,
        token |-> AccessToken(u), closed |-> FALSE,
        chat |-> findUnique(u, t)])
  /\ UNCHANGED <<chats, runVars, requests, pending, events, resp, reach,
                 storeVars, serviceVars, now, token, closed>>

\* The handler goes on from the lookup: it creates the chat when the
\* lookup found none, and continues to graph.stream.
AfterFindChat(i, hasMsg) ==
  /\ i \in 1..Len(parked)
  /\ parked[i].node = "find_chat"
  /\ token' = parked[i].token
  /\ Handler(parked[i].config.userId, parked[i].config.thread_id, hasMsg, TRUE,
             parked[i].chat)
  /\ parked' = SubSeq(parked, 1, i - 1) \o SubSeq(parked, i + 1, Len(parked))

\* ---------------------------------------------------------------- graph
\* call_model returns: the memories of the user are searched and put in
\* the system prompt, the model's message joins the history, the
\* conditional edge routes on it, and the state is checkpointed.
callModel(r) ==
  /\ node = "call_model"
  /\ tick(step) = "running"
  /\ sys' = search(memories, <<"memories", ensureConfiguration(config).userId>>,
                   SearchLimit)
  /\ searches' = searches + 1
  /\ prompt' = history
  /\ history' = GraphAnnotation(history, <<AIMessage(r, nextId)>>)
  /\ checkpoint' = [checkpoint EXCEPT ![config.thread_id] = history']
  /\ nextId' = nextId + Len(r.names)
  /\ pending' = pending \o r.frags
  /\ node' = routeMessage(history')
  /\ step' = step + 1
  /\ invocations' = invocations + 1
  /\ UNCHANGED <<chats, config, failure, run, requests, clientVars, dispatches,
                 completion, events, resp, reach, storeVars, serviceVars, now, serviceVars>>

\* call_model throws before the model is reached: store.search rejects.
SearchFails ==
  /\ node = "call_model"
  /\ tick(step) = "running"
  /\ node' = "error"
  /\ failure' = "store"
  /\ step' = step + 1
  /\ searches' = searches + 1
  /\ UNCHANGED <<chats, history, checkpoint, config, prompt, sys, run,
                 requests, clientVars, invocations, dispatches, completion, nextId,
                 pending, events, resp, reach, storeVars, serviceVars, now, serviceVars>>

\* A call_model that is run again after boundLLM.invoke rejects.
ModelFailsRetry(frags) ==
  /\ node = "call_model"
  /\ tick(step) = "running"
  /\ sys' = search(memories, <<"memories", ensureConfiguration(config).userId>>,
                   SearchLimit)
  /\ searches' = searches + 1
  /\ prompt' = history
  /\ pending' = pending \o frags
  /\ node' = "call_model"
  /\ failure' = "model"
  /\ step' = step + 1
  /\ invocations' = invocations + 1
  /\ UNCHANGED <<chats, history, checkpoint, config, run, requests, clientVars,
                 dispatches, completion, nextId, events, resp, reach,
                 storeVars, serviceVars, now, serviceVars>>

\* boundLLM.invoke rejects (network failure, timeout), possibly after some
\* chunks were streamed.
ModelFails(frags) ==
  /\ node = "call_model"
  /\ tick(step) = "running"
  /\ sys' = search(memories, <<"memories", ensureConfiguration(config).userId>>,
                   SearchLimit)
  /\ searches' = searches + 1
  /\ prompt' = history
  /\ pending' = pending \o frags
  /\ node' = "error"
  /\ failure' = "model"
  /\ step' = step + 1
  /\ invocations' = invocations + 1
  /\ UNCHANGED <<chats, history, checkpoint, config, run, requests, clientVars,
                 dispatches, completion, nextId, events, resp, reach,
                 storeVars, serviceVars, now, serviceVars>>

\* store_data: every requested tool is dispatched, Promise.all joins them;
\* the writes of the handlers stay whether or not the join rejects.
storeData(order, up) ==
  /\ node = "store_data"
  /\ tick(step) = "running"
  /\ LET toolCalls == Last(history).calls
         n    == Len(toolCalls)
         ran  == mapToolCalls(toolCalls, order, 1, config, up, Stores, now)
         outs == ran.outs
         results == PromiseAll(outs, order)
     IN  /\ order \in Perms(n)
         /\ completion' = order
         /\ reach' = up
         /\ memories' = ran.db.memories
         /\ waterLog' = ran.db.waterLog
         /\ foodLog' = ran.db.foodLog
         /\ IF \E i \in 1..n : outs[i] = Rejected
            THEN /\ node' = "error"
                 /\ failure' = IF \E i \in 1..n : toolCalls[i].name \notin initializeTools
                               THEN "tool_not_found" ELSE "tool_threw"
                 /\ UNCHANGED <<history, checkpoint, pending>>
            ELSE /\ history' = GraphAnnotation(history, results)
                 /\ checkpoint' = [checkpoint EXCEPT ![config.thread_id] = history']
                 /\ pending' = pending \o [i \in 1..n |-> ToolFrag]
                 /\ node' = "call_model"
                 /\ UNCHANGED failure
  /\ step' = step + 1
  /\ dispatches' = dispatches + 1
  /\ UNCHANGED <<chats, config, prompt, sys, run, requests, clientVars, invocations,
                 searches, nextId, events, resp, now, serviceVars>>

\* The superstep budget is used up while a node is still due.
OutOfSteps ==
  /\ node \in {"call_model", "store_data"}
  /\ tick(step) = "out_of_steps"
  /\ node' = "error"
  /\ failure' = "recursion"
  /\ UNCHANGED <<chats, history, checkpoint, config, prompt, sys, step, run,
                 requests, clientVars, invocations, searches, dispatches, completion,
                 nextId, pending, events, resp, reach, storeVars, serviceVars, now, serviceVars>>

\* -------------------------------------------------------- specifications
Request ==
  \E u \in Users, t \in Threads \cup {""}, hasMsg \in BOOLEAN, dbOk \in BOOLEAN :
    Route(AccessToken(u), t, hasMsg, TRUE, dbOk)

Post ==
  /\ requests < MaxRuns
  /\ Request

ModelReturns ==
  \E r \in Responses :
    /\ nextId + Len(r.names) <= MaxIds
    /\ callModel(r)

ModelThrows == \E frags \in {<<>>, <<TextFrag>>} : ModelFails(frags)

StoreStep ==
  /\ node = "store_data"
  /\ \E order \in Perms(Len(Last(history).calls)), up \in Reach :
       storeData(order, up)

Next ==
  \/ Post
  \/ ModelReturns
  \/ SearchFails
  \/ ModelThrows
  \/ StoreStep
  \/ Forward
  \/ Complete
  \/ ErrorEvent

Spec == Init /\ [][Next]_vars

\* SpecStream: the responses vary in the fragments they are streamed in.
StreamModelReturns ==
  \E r \in StreamResponses :
    /\ nextId + Len(r.names) <= MaxStreamIds
    /\ callModel(r)

StreamModelThrows ==
  \E frags \in SeqsUpTo(AIFrags, 0, MaxFrags) : ModelFails(frags)

StreamPost ==
  /\ requests < MaxStreamRuns
  /\ Request

NextStream ==
  \/ StreamPost
  \/ StreamModelReturns
  \/ SearchFails
  \/ StreamModelThrows
  \/ StoreStep
  \/ Forward
  \/ Complete
  \/ ErrorEvent

SpecStream == Init /\ [][NextStream]_vars

\* SpecLoop: the model may go on requesting saveWaterIntake for as long as
\* the graph asks it.  The graph runner keeps executing due nodes, a model
\* invocation returns or rejects (the client times out), and the route
\* keeps reading the stream: weak fairness of each.
LoopModelReturns ==
  \E r \in LoopResponses :
    /\ step < MaxSteps
    /\ callModel(r)

LoopStoreStep ==
  /\ node = "store_data"
  /\ step < MaxSteps
  /\ \E order \in Perms(Len(Last(history).calls)) : storeData(order, AllUp)

LoopPost ==
  /\ requests < MaxLoopRuns
  /\ Request

GraphStep ==
  \/ LoopModelReturns
  \/ SearchFails
  \/ ModelThrows
  \/ LoopStoreStep
  \/ OutOfSteps

NextLoop ==
  \/ LoopPost
  \/ LoopModelReturns
  \/ SearchFails
  \/ ModelThrows
  \/ LoopStoreStep
  \/ OutOfSteps
  \/ Forward
  \/ Complete
  \/ ErrorEvent

SpecLoop ==
  /\ Init
  /\ [][NextLoop]_vars
  /\ WF_vars(GraphStep)
  /\ WF_vars(Forward)
  /\ WF_vars(Complete)
  /\ WF_vars(ErrorEvent)

\* SpecClock: the clock advances between any two steps; a response is a
\* plain answer streamed in up to MaxClockFrags fragments.
ClockResponses ==
  {[names |-> <<>>, args |-> <<>>, frags |-> fs] :
     fs \in SeqsUpTo({f \in AIFrags : ~f.tc}, 1, MaxClockFrags)}

ClockModelReturns == \E r \in ClockResponses : callModel(r)

ClockTick ==
  /\ now < MaxNow
  /\ Tick

NextClock ==
  \/ StreamPost
  \/ ClockModelReturns
  \/ ModelThrows
  \/ ClockTick
  \/ Forward
  \/ Complete
  \/ ErrorEvent

SpecClock == Init /\ [][NextClock]_vars

\* SpecStore: two users and two threads; the model requests one tool per
\* turn, with or without an entryId or memoryId; the stores are reachable,
\* the model answers, and the route reads every fragment before the graph
\* takes its next step.
\* Without an id the model logs 250 ml or stores the text c1; with an id it
\* rewrites the entry to 8 oz or the memory to the text c2.
WaterArgs ==
  {NoArgs} \cup
  {[NoArgs EXCEPT !.id = i, !.amount = 800, !.unit = " OZ "] :
     i \in 1..MaxEntryId}

MemoryArgs ==
  {NoArgs} \cup
  {[NoArgs EXCEPT !.id = i, !.content = "c2"] :
     i \in 1..MaxEntryId}

StoreResponses ==
  {[names |-> <<>>, args |-> <<>>, frags |-> <<TextFrag>>]}
  \cup {[names |-> <<"saveWaterIntake">>, args |-> <<a>>, frags |-> <<CallFrag>>] :
          a \in WaterArgs}
  \cup {[names |-> <<"upsertMemory">>, args |-> <<a>>, frags |-> <<CallFrag>>] :
          a \in MemoryArgs}

StorePost ==
  /\ requests < MaxStoreRuns
  /\ \E u \in AllUsers, t \in AllThreads : Route(AccessToken(u), t, TRUE, TRUE, TRUE)

StoreModelReturns ==
  /\ pending = <<>>
  /\ \E r \in StoreResponses :
       /\ nextId + Len(r.names) <= MaxStoreIds
       /\ callModel(r)

StoreDispatch ==
  /\ node = "store_data"
  /\ \E order \in Perms(Len(Last(history).calls)) : storeData(order, AllUp)

StoreReadThenDispatch ==
  /\ pending = <<>>
  /\ StoreDispatch

NextStore ==
  \/ StorePost
  \/ StoreModelReturns
  \/ StoreReadThenDispatch
  \/ Forward
  \/ Complete

SpecStore == Init /\ [][NextStore]_vars

\* SpecMemory: two users, each posting on a thread of their own; the model
\* goes on storing one new memory per turn for as long as the graph asks
\* it, or answers plainly; the route reads every fragment before the graph
\* takes its next step.
ThreadOf(u) == IF u = "u1" THEN "t1" ELSE "t2"

MemoryResponses ==
  {[names |-> <<>>, args |-> <<>>, frags |-> <<TextFrag>>],
   [names |-> <<"upsertMemory">>, args |-> <<NoArgs>>, frags |-> <<CallFrag>>]}

MemoryPost ==
  /\ requests < MaxMemRuns
  /\ \E u \in AllUsers : Route(AccessToken(u), ThreadOf(u), TRUE, TRUE, TRUE)

MemoryModelReturns ==
  /\ pending = <<>>
  /\ \E r \in MemoryResponses : callModel(r)


NextMemory ==
  \/ MemoryPost
  \/ MemoryModelReturns
  \/ StoreReadThenDispatch
  \/ OutOfSteps
  \/ Forward
  \/ Complete
  \/ ErrorEvent

SpecMemory == Init /\ [][NextMemory]_vars

\* SpecFood: one user; the model logs one food intake per request, the
\* stores are reachable, and the route reads every fragment before the
\* graph takes its next step.  The arguments sweep the hour of the
\* timestamp, the meal type and the quantity text.
Hours == 0..23

QuantityChars == {"1", ".", " ", "g"}

QuantityTexts ==
  SeqsUpTo(QuantityChars, 0, MaxText)
  \cup {<<"1", "5", "0", "g">>, <<"1", " ", "c", "u", "p">>,
        <<"a", "p", "p", "l", "e">>, <<"0", ".", "2", "5", " ", "k", "g", " ">>}

FoodArgs ==
  {[NoArgs EXCEPT !.ts = h * HourMs + o] : h \in Hours, o \in {1, HourMs - 1}}
  \cup {[NoArgs EXCEPT !.mealType = mt, !.ts = ts] :
          mt \in MealTypes, ts \in {0, 12 * HourMs + 1}}
  \cup {[NoArgs EXCEPT !.quantity = q] : q \in QuantityTexts}

FoodResponses ==
  {[names |-> <<>>, args |-> <<>>, frags |-> <<TextFrag>>]}
  \cup {[names |-> <<"saveFoodIntake">>, args |-> <<a>>, frags |-> <<CallFrag>>] :
          a \in FoodArgs}

FoodPost ==
  /\ requests < MaxFoodRuns
  /\ \E u \in Users, t \in Threads : Route(AccessToken(u), t, TRUE, TRUE, TRUE)

FoodModelReturns ==
  /\ pending = <<>>
  /\ \E r \in FoodResponses :
       /\ dispatches + Len(r.names) <= 1
       /\ callModel(r)

NextFood ==
  \/ FoodPost
  \/ FoodModelReturns
  \/ StoreReadThenDispatch
  \/ Forward
  \/ Complete

SpecFood == Init /\ [][NextFood]_vars

\* SpecWater: one user; the model logs one water intake per request, the
\* stores are reachable, and the route reads every fragment before the
\* graph takes its next step.  The arguments sweep the unit strings and
\* amounts with and without a fraction (in hundredths).
MlNames    == {"ml", "milliliter", "milliliters"}
CupNames   == {"cup", "cups"}
LiterNames == {"liter", "liters", "l"}

\* The recognised names, two of them in another case or padded, and
\* strings that are not recognised.
UnitStrings ==
  MlNames \cup OunceNames \cup CupNames \cup LiterNames
  \cup {" OZ ", "Cups", "glass", "litre", ""}

WaterSweep ==
  {[NoArgs EXCEPT !.unit = u, !.amount = a] :
     u \in UnitStrings, a \in {50, 150, 200}}
  \cup {[NoArgs EXCEPT !.unit = u, !.amount = 800] :
          u \in UnitStrings \ LiterNames}
  \cup {[NoArgs EXCEPT !.unit = "ml", !.amount = a] : a \in {23649, 23650}}

WaterResponses ==
  {[names |-> <<>>, args |-> <<>>, frags |-> <<TextFrag>>]}
  \cup {[names |-> <<"saveWaterIntake">>, args |-> <<a>>, frags |-> <<CallFrag>>] :
          a \in WaterSweep}

WaterPost ==
  /\ requests < MaxWaterRuns
  /\ \E u \in Users, t \in Threads : Route(AccessToken(u), t, TRUE, TRUE, TRUE)

WaterModelReturns ==
  /\ pending = <<>>
  /\ \E r \in WaterResponses :
       /\ dispatches + Len(r.names) <= 1
       /\ callModel(r)

NextWater ==
  \/ WaterPost
  \/ WaterModelReturns
  \/ StoreReadThenDispatch
  \/ Forward
  \/ Complete

SpecWater == Init /\ [][NextWater]_vars

\* SpecCancel: SpecStream with a client that may close the connection at
\* any moment while the response is open.
CancelPost ==
  /\ requests < MaxCancelRuns
  /\ Request

NextCancel ==
  \/ CancelPost
  \/ StreamModelReturns
  \/ StreamModelThrows
  \/ StoreStep
  \/ Forward
  \/ Complete
  \/ ErrorEvent
  \/ ClientClose

SpecCancel == Init /\ [][NextCancel]_vars

\* SpecConcurrent: one user posting on one thread; a handler may be
\* suspended while its run is in progress, and another request may then
\* be handled.  The model answers plainly or logs water once per run.
ConcPost ==
  /\ requests < MaxConcRuns
  /\ \E u \in Users, t \in Threads : Route(AccessToken(u), t, TRUE, TRUE, TRUE)

ConcModelReturns ==
  /\ pending = <<>>
  /\ \E r \in LoopResponses :
       /\ dispatches + Len(r.names) <= 1
       /\ callModel(r)

Switch == \E i \in 1..Len(parked) : Resume(i)

NextConcurrent ==
  \/ ConcPost
  \/ Park
  \/ Switch
  \/ ConcModelReturns
  \/ StoreReadThenDispatch
  \/ Forward
  \/ Complete

SpecConcurrent == Init /\ [][NextConcurrent]_vars

\* SpecAuth: requests with every Authorization header, on both threads,
\* with the user table reachable or not; requests are handled one after
\* another.  The model answers plainly or logs water once per run.
AuthPost ==
  /\ requests < MaxAuthRuns
  /\ \E tok \in Tokens, t \in AllThreads, authOk \in BOOLEAN :
       Route(tok, t, TRUE, authOk, TRUE)

NextAuth ==
  \/ AuthPost
  \/ ConcModelReturns
  \/ StoreReadThenDispatch
  \/ Forward
  \/ Complete

SpecAuth == Init /\ [][NextAuth]_vars

\* SpecThread: two users and two threads; a request is handled in two
\* steps, the chat lookup and what follows it, and the handlers of other
\* requests may run in between.  The model answers plainly.
ThreadFind ==
  /\ requests + Len(parked) < MaxThreadRuns
  /\ \E u \in AllUsers, t \in AllThreads : FindChat(u, t)

ThreadCreate ==
  \E i \in 1..Len(parked), hasMsg \in BOOLEAN : AfterFindChat(i, hasMsg)

ThreadModelReturns ==
  /\ pending = <<>>
  /\ callModel([names |-> <<>>, args |-> <<>>, frags |-> <<TextFrag>>])

NextThread ==
  \/ ThreadFind
  \/ ThreadCreate
  \/ ThreadModelReturns
  \/ Forward
  \/ Complete

SpecThread == Init /\ [][NextThread]_vars

\* ----------------------------------------------------------- /otp routes
\* What the /otp routes leave alone.
replyVars == <<chats, runVars, requests, clientVars, pending, events, resp, reach,
               storeVars>>

Rejection(route, identifier, otp, status, message) ==
  Response(route, identifier, otp, status, message, NoRefresh, NoRefresh)

\* The body shared by POST /otp/send and POST /otp/resend-otp: 400 for an
\* identifier that is not an email, 500 from the catch when the user
\* lookup throws; else the user row is created if missing, the entry is
\* set with a fresh code and no attempts, and removed again when the email
\* could not be sent.
issueOtp(route, identifier, code, emailSent, dbOk) ==
  /\ IF identifier \in BadIdentifiers
     THEN /\ authResp' = (Rejection(route, identifier, "", 400, "Valid email address is required"))
          /\ UNCHANGED <<otpStorage, users>>
     ELSE IF ~dbOk
     THEN /\ authResp' = (Rejection(route, identifier, "", 500, "Internal server error"))
          /\ UNCHANGED <<otpStorage, users>>
     ELSE /\ users' = [users EXCEPT ![identifier] = IF @.exists THEN @ ELSE NewUser]
          /\ otpStorage' = [otpStorage EXCEPT ![identifier] =
               IF emailSent
               THEN [otp |-> code, expiresAt |-> now + OtpTtl, attempts |-> 0]
               ELSE NoOtp]
          /\ authResp' = (IF emailSent
               THEN Rejection(route, identifier, "", 200, "OTP sent")
               ELSE Rejection(route, identifier, "", 500, "Failed to send email"))
  /\ UNCHANGED <<replyVars, now, refreshes, pdf, day>>

Send(identifier, code, emailSent, dbOk) ==
  issueOtp("send", identifier, code, emailSent, dbOk)

Resend(identifier, code, emailSent, dbOk) ==
  issueOtp("resend-otp", identifier, code, emailSent, dbOk)

\* The user row after a successful verification.
Verified(tok) == [exists |-> TRUE, verified |-> TRUE, refreshToken |-> tok]

\* A verify route that keeps an expired entry and judges it by its code.
VerifyKeepsExpired(identifier, otp, dbOk) ==
  LET stored == otpStorage[identifier]
      tok    == generateRefreshToken(identifier, now)
  IN
  /\ IF otp \in ShortCodes \/ stored = NoOtp \/ otp # stored.otp
     THEN /\ authResp' = (Rejection("verify", identifier, otp, 400, "Invalid OTP"))
          /\ UNCHANGED <<otpStorage, users>>
     ELSE /\ users' = [users EXCEPT ![identifier] = Verified(tok)]
          /\ authResp' = (Response("verify", identifier, otp, 200, "OTP verified", NoRefresh, tok))
          /\ UNCHANGED otpStorage
  /\ UNCHANGED <<replyVars, now, refreshes, pdf, day>>

\* POST /otp/verify.  The demo pair is answered first, without a look at
\* otpStorage.  Else: 400 for a code that is not six characters, 400
\* without an entry, 400 and the entry removed when it has expired or has
\* three attempts, 400 and one more attempt for a wrong code; the right
\* code removes the entry, then the user row is marked verified and holds
\* the hash of the refresh token returned (500 when the database throws).
Verify(identifier, otp, dbOk) ==
  LET stored == otpStorage[identifier]
      tok    == generateRefreshToken(identifier, now)
      reject(status, message) ==
        authResp' = Rejection("verify", identifier, otp, status, message)
      accept ==
        IF dbOk
        THEN /\ users' = [users EXCEPT ![identifier] = Verified(tok)]
             /\ authResp' = (Response("verify", identifier, otp, 200, "OTP verified", NoRefresh, tok))
        ELSE /\ reject(500, "Internal server error")
             /\ UNCHANGED users
  IN
  /\ IF identifier = DemoIdentifier /\ otp = DemoOtp
     THEN /\ accept
          /\ UNCHANGED otpStorage
     ELSE IF otp \in ShortCodes
     THEN /\ reject(400, "Valid email and 6-digit OTP are required")
          /\ UNCHANGED <<otpStorage, users>>
     ELSE IF stored = NoOtp
     THEN /\ reject(400, "OTP not found")
          /\ UNCHANGED <<otpStorage, users>>
     ELSE IF now > stored.expiresAt
     THEN /\ otpStorage' = [otpStorage EXCEPT ![identifier] = NoOtp]
          /\ reject(400, "OTP has expired")
          /\ UNCHANGED users
     ELSE IF stored.attempts >= 3
     THEN /\ otpStorage' = [otpStorage EXCEPT ![identifier] = NoOtp]
          /\ reject(400, "Maximum verification attempts exceeded")
          /\ UNCHANGED users
     ELSE IF otp # stored.otp
     THEN /\ otpStorage' = [otpStorage EXCEPT ![identifier].attempts = @ + 1]
          /\ reject(400, "Invalid OTP")
          /\ UNCHANGED users
     ELSE /\ otpStorage' = [otpStorage EXCEPT ![identifier] = NoOtp]
          /\ accept
  /\ UNCHANGED <<replyVars, now, refreshes, pdf, day>>

\* The setInterval callback: every expired entry is deleted.
cleanup ==
  /\ \E i \in Identifiers : otpStorage[i] # NoOtp /\ now > otpStorage[i].expiresAt
  /\ otpStorage' = [i \in Identifiers |->
       IF otpStorage[i] # NoOtp /\ now > otpStorage[i].expiresAt
       THEN NoOtp ELSE otpStorage[i]]
  /\ UNCHANGED <<replyVars, now, users, authResp, refreshes, pdf, day>>

\* Time passes: d milliseconds.
Elapse(d) ==
  /\ now' = now + d
  /\ UNCHANGED <<replyVars, serviceVars>>

\* SpecOtp: send, resend and verify requests for every identifier, the
\* cleanup timer, and a clock that moves by a millisecond or by the
\* lifetime of a code, up to MaxOtpMs milliseconds after the
\* start and after one lifetime.
MaxOtpMs == 2

OtpSend ==
  /\ \E i \in Identifiers \cup BadIdentifiers, c \in Codes, sent \in BOOLEAN,
        dbOk \in BOOLEAN : Send(i, c, sent, dbOk)

OtpResend ==
  /\ \E i \in Identifiers \cup BadIdentifiers, c \in Codes, sent \in BOOLEAN,
        dbOk \in BOOLEAN : Resend(i, c, sent, dbOk)

OtpVerify ==
  /\ \E i \in Identifiers, c \in Submitted, dbOk \in BOOLEAN : Verify(i, c, dbOk)

OtpElapse ==
  \E d \in {1, OtpTtl} :
    /\ (now + d) % OtpTtl <= MaxOtpMs
    /\ now + d <= OtpTtl + MaxOtpMs
    /\ Elapse(d)

NextOtp ==
  \/ OtpSend
  \/ OtpResend
  \/ OtpVerify
  \/ cleanup
  \/ OtpElapse

SpecOtp == Init /\ [][NextOtp]_vars

\* ------------------------------------------------- refresh-token, logout
\* The refresh tokens a client can present: none, one that jwt.verify
\* rejects, and the well-signed tokens of every user and issue second.
MaxSessionSeconds == 2

RefreshTokens ==
  {NoRefresh}
  \cup {ForgedRefresh(i) : i \in Identifiers}
  \cup {generateRefreshToken(i, s * 1000) : i \in Identifiers, s \in 0..MaxSessionSeconds}

Refused(tok, message) ==
  Response("refresh-token", tok.userId, "", 401, message, tok, NoRefresh)

\* POST /otp/refresh-token up to the return of prisma.user.findUnique: 401
\* without a token, 401 from the catch when verifyRefreshToken or the
\* lookup throws; else the handler is suspended holding the row it read.
RefreshFind(tok, dbOk) ==
  /\ IF tok = NoRefresh
     THEN /\ authResp' = Refused(tok, "Refresh token is required")
          /\ UNCHANGED refreshes
     ELSE IF ~verifyRefreshToken(tok) \/ ~dbOk
     THEN /\ authResp' = Refused(tok, "Invalid or expired refresh token")
          /\ UNCHANGED refreshes
     ELSE /\ refreshes' = Append(refreshes, [token |-> tok, user |-> users[tok.userId]])
          /\ UNCHANGED authResp
  /\ UNCHANGED <<replyVars, now, otpStorage, users, pdf, day>>

\* The rest of the handler, with the row read before the suspension: 401
\* when there is no row or the row holds no hash, 401 when bcrypt.compare
\* fails against the hash of that row, 401 from the catch when updateUser
\* throws; else a new pair is signed, the hash of the new refresh token is
\* written to the row, and the pair is returned.
RefreshUpdate(k, dbOk) ==
  LET tok  == refreshes[k].token
      user == refreshes[k].user
      new  == generateRefreshToken(tok.userId, now)
  IN
  /\ refreshes' = SubSeq(refreshes, 1, k - 1) \o SubSeq(refreshes, k + 1, Len(refreshes))
  /\ IF ~user.exists \/ user.refreshToken = NoRefresh
        \/ ~bcryptCompare(tok, user.refreshToken)
     THEN /\ authResp' = Refused(tok, "Invalid refresh token")
          /\ UNCHANGED users
     ELSE IF ~dbOk
     THEN /\ authResp' = Refused(tok, "Invalid or expired refresh token")
          /\ UNCHANGED users
     ELSE /\ users' = [users EXCEPT ![tok.userId].refreshToken = new]
          /\ authResp' = Response("refresh-token", tok.userId, "", 200,
                                  "Tokens refreshed", tok, new)
  /\ UNCHANGED <<replyVars, now, otpStorage, pdf, day>>

\* POST /otp/logout: authenticateToken answers 401 for a bad access token
\* and for a user without a verified row; the handler clears the stored
\* hash (500 from the catch when updateUser throws).
Logout(userId, tokOk, dbOk) ==
  /\ IF ~tokOk \/ ~users[userId].exists \/ ~users[userId].verified
     THEN /\ authResp' = Response("logout", userId, "", 401, "Invalid or expired token",
                                  NoRefresh, NoRefresh)
          /\ UNCHANGED users
     ELSE IF ~dbOk
     THEN /\ authResp' = Response("logout", userId, "", 500, "Internal server error",
                                  NoRefresh, NoRefresh)
          /\ UNCHANGED users
     ELSE /\ users' = [users EXCEPT ![userId].refreshToken = NoRefresh]
          /\ authResp' = Response("logout", userId, "", 200, "Logged out successfully",
                                  NoRefresh, NoRefresh)
  /\ UNCHANGED <<replyVars, now, otpStorage, refreshes, pdf, day>>

\* SpecSession: one user logs in with a code that was sent, refresh
\* requests carry any token, up to MaxRefreshes handlers at a time, the
\* user logs out; seconds pass.
MaxRefreshes == 2

SessionUsers == {"a@x.io"}

SessionSend == \E i \in SessionUsers, c \in Codes : Send(i, c, TRUE, TRUE)

SessionVerify == \E i \in SessionUsers, c \in Codes : Verify(i, c, TRUE)

SessionRefreshFind ==
  /\ Len(refreshes) < MaxRefreshes
  /\ \E tok \in RefreshTokens, dbOk \in BOOLEAN : RefreshFind(tok, dbOk)

SessionRefreshUpdate ==
  \E k \in 1..Len(refreshes), dbOk \in BOOLEAN : RefreshUpdate(k, dbOk)

SessionLogout ==
  \E i \in SessionUsers, tokOk \in BOOLEAN, dbOk \in BOOLEAN : Logout(i, tokOk, dbOk)

SessionElapse ==
  /\ (now + 1000) \div 1000 <= MaxSessionSeconds
  /\ Elapse(1000)

NextSession ==
  \/ SessionSend
  \/ SessionVerify
  \/ SessionRefreshFind
  \/ SessionRefreshUpdate
  \/ SessionLogout
  \/ SessionElapse

SpecSession == Init /\ [][NextSession]_vars

\* ------------------------------------------------------ POST /uworld/llm
\* What generateText does for a page: it throws, or returns a text with no
\* JSON in it, a JSON value that fails validateUWorldJSON, or a valid
\* UWorldData (of which overallStats.totalQuestions is kept).
ModelThrew  == [thrown |-> TRUE,  json |-> FALSE, valid |-> FALSE, totalQuestions |-> 0]
NoJson      == [thrown |-> FALSE, json |-> FALSE, valid |-> FALSE, totalQuestions |-> 0]
InvalidJson == [thrown |-> FALSE, json |-> TRUE,  valid |-> FALSE, totalQuestions |-> 2]
ValidJson   == [thrown |-> FALSE, json |-> TRUE,  valid |-> TRUE,  totalQuestions |-> 1]

PageOutputs == {ModelThrew, NoJson, InvalidJson, ValidJson}

\* JSONParser.extractJSON throws when the text holds no JSON.
extractJSON(text) == [threw |-> ~text.json, value |-> text]

validateUWorldJSON(data) == data.valid

\* A processPage whose parse failure leaves the function: its promise
\* rejects.
processPageRejects(pageNumber, out) ==
  IF out.thrown
  THEN [pageNumber |-> pageNumber, success |-> FALSE, parsedData |-> FALSE,
        totalQuestions |-> 0, rejected |-> FALSE]
  ELSE IF extractJSON(out).threw
  THEN [pageNumber |-> pageNumber, success |-> FALSE, parsedData |-> FALSE,
        totalQuestions |-> 0, rejected |-> TRUE]
  ELSE LET ok == validateUWorldJSON(extractJSON(out).value) IN
       [pageNumber |-> pageNumber, success |-> TRUE, parsedData |-> ok,
        totalQuestions |-> IF ok THEN out.totalQuestions ELSE 0, rejected |-> FALSE]

\* processPage: the outer catch turns a model error into success: false;
\* the inner catch swallows the parse error, and a value that fails the
\* validation is dropped, so parsedData is set for a valid page only.  The
\* promise never rejects.
processPage(pageNumber, out) ==
  IF out.thrown
  THEN [pageNumber |-> pageNumber, success |-> FALSE, parsedData |-> FALSE,
        totalQuestions |-> 0, rejected |-> FALSE]
  ELSE LET ok == ~extractJSON(out).threw /\ validateUWorldJSON(extractJSON(out).value) IN
       [pageNumber |-> pageNumber, success |-> TRUE, parsedData |-> ok,
        totalQuestions |-> IF ok THEN out.totalQuestions ELSE 0, rejected |-> FALSE]

\* maxConcurrency: 5
maxConcurrency == 5

\* results.sort((a, b) => a.pageNumber - b.pageNumber)
sortByPageNumber(rs) ==
  [k \in 1..Len(rs) |->
     CHOOSE r \in {rs[j] : j \in 1..Len(rs)} :
       Cardinality({j \in 1..Len(rs) : rs[j].pageNumber < r.pageNumber}) = k - 1]

\* JSONParser.combineUWorldData: the sum of totalQuestions over the results
\* with success and parsedData.
RECURSIVE combineUWorldData(_)
combineUWorldData(pageResults) ==
  IF pageResults = <<>> THEN 0
  ELSE LET result == Head(pageResults) IN
       (IF result.success /\ result.parsedData THEN result.totalQuestions ELSE 0)
       + combineUWorldData(Tail(pageResults))

\* The request arrives: 400 without presignedUrl or prompt; splitPdfFromS3Url
\* throws (500 from the catch) or returns the pages.
PostLlm(hasUrl, hasPrompt, splitOk, outs) ==
  /\ IF ~hasUrl \/ ~hasPrompt
     THEN pdf' = [NoPdf EXCEPT !.phase = "done", !.status = 400]
     ELSE IF ~splitOk
     THEN pdf' = [NoPdf EXCEPT !.phase = "done", !.status = 500, !.webhook = "failure"]
     ELSE pdf' = [NoPdf EXCEPT !.phase = "processing", !.split = TRUE, !.pages = outs]
  /\ UNCHANGED <<replyVars, now, otpStorage, users, authResp, refreshes, day>>

\* One turn of the loop of processPdfPagesInParallel: the next
\* maxConcurrency pages are processed and joined by Promise.all; a
\* rejected promise makes the route's catch answer 500.
ProcessBatch ==
  LET i     == Len(pdf.results)
      last  == IF i + maxConcurrency < Len(pdf.pages)
               THEN i + maxConcurrency ELSE Len(pdf.pages)
      batch == [k \in 1..(last - i) |-> processPage(i + k, pdf.pages[i + k])]
  IN
  /\ pdf.phase = "processing"
  /\ i < Len(pdf.pages)
  /\ IF \E k \in 1..Len(batch) : batch[k].rejected
     THEN pdf' = [pdf EXCEPT !.phase = "done", !.status = 500, !.webhook = "failure"]
     ELSE pdf' = [pdf EXCEPT !.results = @ \o batch]
  /\ UNCHANGED <<replyVars, now, otpStorage, users, authResp, refreshes, day>>

\* After the loop: the results are sorted, counted and combined, the
\* webhook is called, and the response is 200.
Combine ==
  LET pageResults     == sortByPageNumber(pdf.results)
      successfulPages == {k \in 1..Len(pageResults) :
                            pageResults[k].success /\ pageResults[k].parsedData}
      failedPages     == {k \in 1..Len(pageResults) :
                            ~pageResults[k].success \/ ~pageResults[k].parsedData}
  IN
  /\ pdf.phase = "processing"
  /\ Len(pdf.results) = Len(pdf.pages)
  /\ pdf' = [pdf EXCEPT
       !.phase = "done",
       !.status = 200,
       !.results = pageResults,
       !.totalPages = Len(pdf.pages),
       !.successfulPages = Cardinality(successfulPages),
       !.failedPages = Cardinality(failedPages),
       !.combinedData = IF successfulPages # {} THEN combineUWorldData(pageResults) ELSE 0,
       !.webhook = IF successfulPages # {} THEN "success" ELSE "failure"]
  /\ UNCHANGED <<replyVars, now, otpStorage, users, authResp, refreshes, day>>

\* SpecPdf: one request for a document of up to MaxPages pages, every
\* page with every output.
MaxPages == 6

PdfPost ==
  /\ pdf.phase = "idle"
  /\ \E hasUrl \in BOOLEAN, hasPrompt \in BOOLEAN, splitOk \in BOOLEAN,
     outs \in SeqsUpTo(PageOutputs, 0, MaxPages) :
    PostLlm(hasUrl, hasPrompt, splitOk, outs)

NextPdf ==
  \/ PdfPost
  \/ ProcessBatch
  \/ Combine

SpecPdf == Init /\ [][NextPdf]_vars

\* ------------------------------------------------------- daily queries
\* Times are milliseconds since the epoch; a date is the number of its
\* day, and new Date("YYYY-MM-DD") is its midnight in UTC.
MinuteMs == 60000
DayMs    == 86400000

newDate(date) == date * DayMs

\* Date.prototype.setUTCHours(h, m, s, ms)
setUTCHours(t, h, m, s, ms) ==
  (t \div DayMs) * DayMs + ((h * 60 + m) * 60 + s) * 1000 + ms

\* Date.prototype.getMinutes and setMinutes work on the local time of the
\* server, tz minutes east of UTC; setMinutes replaces the minute field
\* and carries what is out of 0..59 into the hours.
getMinutes(t, tz) == ((t + tz * MinuteMs) \div MinuteMs) % 60

setMinutes(t, tz, m) == t + (m - getMinutes(t, tz)) * MinuteMs

\* The window of GET /user-food/today: each end is moved by 330 minutes
\* from its own minute field.
todayWindow(date, tz) ==
  LET start == setUTCHours(newDate(date), 0, 0, 0, 0)
      end   == setUTCHours(newDate(date), 23, 59, 59, 999)
  IN [startOfDay |-> setMinutes(start, tz, getMinutes(start, tz) - 330),
      endOfDay   |-> setMinutes(end, tz, getMinutes(end, tz) - 330)]

\* The window of GET /user/calories and GET /user/water: the minute field
\* of endOfDay is set from the minutes of the startOfDay already moved.
totalsWindow(date, tz) ==
  LET start      == setUTCHours(newDate(date), 0, 0, 0, 0)
      end        == setUTCHours(newDate(date), 23, 59, 59, 999)
      startOfDay == setMinutes(start, tz, getMinutes(start, tz) - 330)
  IN [startOfDay |-> startOfDay,
      endOfDay   |-> setMinutes(end, tz, getMinutes(startOfDay, tz) - 330)]

Routes == {"user-food/today", "user/calories", "user/water"}

\* The offsets of the server's time zone: UTC, +05:30, +05:45.
Zones == {0, 330, 345}

\* A daily query over a table whose rows were consumed at the times in
\* entries: the rows with startOfDay <= consumedAt <= endOfDay are
\* returned or summed.
Query(route, date, tz, entries) ==
  LET w == IF route = "user-food/today"
           THEN todayWindow(date, tz) ELSE totalsWindow(date, tz)
  IN
  /\ day' = [route |-> route, date |-> date, tz |-> tz,
             startOfDay |-> w.startOfDay, endOfDay |-> w.endOfDay,
             entries |-> entries,
             entryCount |-> Cardinality({t \in entries :
                                           w.startOfDay <= t /\ t <= w.endOfDay})]
  /\ UNCHANGED <<replyVars, now, otpStorage, users, authResp, refreshes, pdf>>

\* SpecDay: queries for the dates 1..MaxDays over tables of up to
\* MaxDayEntries rows consumed around the ends of the day.
MaxDays       == 3
MaxDayEntries == 2

\* Times around the ends of the day of a date in the +05:30 zone: the
\* last millisecond of the day before, the first of the day, and those
\* around 18:01 and 18:30 UTC.
Probes(date) ==
  LET first == newDate(date) - 330 * MinuteMs
      last  == first + DayMs - 1
  IN {first - 1, first, last - 29 * MinuteMs, last - 29 * MinuteMs + 1, last, last + 1}

DayQuery ==
  \E route \in Routes, date \in 1..MaxDays, tz \in Zones :
    \E entries \in {e \in SUBSET Probes(date) : Cardinality(e) <= MaxDayEntries} :
      Query(route, date, tz, entries)

NextDay == DayQuery

SpecDay == Init /\ [][NextDay]_vars


\* =============================================================== claims
Terminal(e) == e.type \in {"complete", "error"}

\* The model returned a message in this step.
ModelReturned ==
  node = "call_model" /\ invocations' = invocations + 1 /\ node' # "error"

\* store_data ran in this step.
Dispatched == node = "store_data" /\ dispatches' = dispatches + 1

\* The route read one fragment from the stream in this step.
FragmentRead ==
  resp = "open" /\ resp' = "open" /\ pending # <<>> /\ pending' = Tail(pending)

\* Every tool-call request in msgs has exactly one tool message answering it.
Matched(msgs) ==
  \A k \in 1..Len(msgs) : \A c \in 1..Len(msgs[k].calls) :
    Cardinality({j \in 1..Len(msgs) :
                   msgs[j].type = "tool" /\
                   msgs[j].tool_call_id = msgs[k].calls[c].id}) = 1

\* C1: after call_model the run enters store_data if and only if the
\* assistant message the model just returned has at least one tool call;
\* store_data is entered in no other way.
C1_DispatchIffToolCalls ==
  [][/\ ModelReturned =>
          (node' = "store_data" <=> Len(Last(history').calls) >= 1)
     /\ (node' = "store_data" /\ node # "store_data") =>
          (ModelReturned /\ Len(Last(history').calls) >= 1)]_vars

C1_Witness ==
  /\ node = "store_data"
  /\ Last(history).type = "ai"
  /\ Len(Last(history).calls) = 1

\* C2: a model response without tool calls ends the run (END), and once
\* the run is at END the same run invokes the model no more and dispatches
\* no tool.
C2_NoCallsReachDone ==
  [][/\ (ModelReturned /\ Last(history').calls = <<>>) => node' = END
     /\ (node = END /\ run' = run) =>
          /\ node' = END
          /\ invocations' = invocations
          /\ dispatches' = dispatches
          /\ history' = history]_vars

C2_Witness ==
  /\ node = END
  /\ resp = "closed"
  /\ Last(history).type = "ai"
  /\ Last(history).calls = <<>>
  /\ dispatches = 1

C4_PromptMatched == Matched(prompt)

\* C5: no event follows a terminal event, an open response has no terminal
\* event yet, and a closed response ends with exactly one.
C5_OneTerminalEvent ==
  /\ \A i \in 1..Len(events) : Terminal(events[i]) => i = Len(events)
  /\ resp = "open" => \A i \in 1..Len(events) : ~Terminal(events[i])
  /\ resp = "closed" => (events # <<>> /\ Terminal(Last(events)))

C5_Witness ==
  /\ resp = "closed"
  /\ Len(events) >= 2
  /\ Last(events).type = "error"
  /\ events[1].type = "message"

\* C6: every opened stream is eventually closed with a terminal event as
\* its last event, whatever the model answers.
C6_StreamTerminates ==
  (resp = "open") ~> (resp = "closed" /\ events # <<>> /\ Terminal(Last(events)))

C6_Witness ==
  /\ resp = "closed"
  /\ failure = "recursion"
  /\ Last(events).type = "error"
  /\ step = RecursionLimit

\* C7: a store_data step over a turn that names an unregistered tool
\* throws and appends nothing; the aborted run invokes the model no more;
\* its stream gets no complete event and closes with an error event.
C7_UnknownToolAborts ==
  /\ [][(Dispatched /\ \E i \in 1..Len(Last(history).calls) :
                         Last(history).calls[i].name \notin initializeTools)
          => (node' = "error" /\ failure' = "tool_not_found" /\ history' = history)]_vars
  /\ [][(failure = "tool_not_found" /\ run' = run)
          => (invocations' = invocations /\ dispatches' = dispatches /\
              history' = history /\ node' = "error")]_vars
  /\ [](failure = "tool_not_found" =>
          /\ \A i \in 1..Len(events) : events[i].type # "complete"
          /\ resp = "closed" =>
               (Last(events).type = "error" /\
                Cardinality({i \in 1..Len(events) : events[i].type = "error"}) = 1))

C7_Witness ==
  /\ failure = "tool_not_found"
  /\ resp = "closed"
  /\ Last(events).type = "error"
  /\ Len(Last(history).calls) = 2
  /\ Last(history).calls[1].name \in initializeTools

\* C8: a store_data step over registered tools, one of which finds its
\* backing store unreachable, does not abort: it appends one tool message
\* per call, an error-shaped one for the failing call, and call_model is next.
HandlerFails(tc, up) ==
  \/ tc.name = "upsertMemory" /\ ~up.mem
  \/ tc.name \in {"saveFoodIntake", "saveWaterIntake"} /\ ~up.db

C8_HandlerFailureRecovered ==
  [][(/\ Dispatched
      /\ \A i \in 1..Len(Last(history).calls) :
            Last(history).calls[i].name \in initializeTools
      /\ \E i \in 1..Len(Last(history).calls) :
            HandlerFails(Last(history).calls[i], reach'))
       => /\ node' = "call_model"
          /\ Len(history') = Len(history) + Len(Last(history).calls)]_vars

\* C9: no message event written to the client comes from a fragment that
\* carries tool-call chunks.
C9_NoToolCallFragmentSent ==
  \A i \in 1..Len(events) :
    events[i].type = "message" => ~events[i].frag.tc

C9_Witness ==
  /\ node = "store_data"
  /\ resp = "open"
  /\ pending = <<>>
  /\ events = <<>>

\* C10 as stated: reading an assistant fragment writes one message event
\* when the fragment has text and writes nothing when it has none.
C10_EventIffText ==
  [][FragmentRead =>
       LET f == Head(pending) IN
         f.kind = "ai" =>
           IF f.text
           THEN events' = Append(events, [type |-> "message", id |-> now, frag |-> f])
           ELSE events' = events]_vars

\* C10 amended: reading an assistant fragment writes one message event
\* when the fragment has no tool-call chunks, whether or not its content
\* is empty, and writes nothing when it has tool-call chunks, even with text.
C10_EventIffNoToolCallChunk ==
  [][FragmentRead =>
       LET f == Head(pending) IN
         IF f.kind = "ai" /\ ~f.tc
         THEN events' = Append(events, [type |-> "message", id |-> now, frag |-> f])
         ELSE events' = events]_vars

C10_Witness ==
  \E i \in 1..Len(events) :
    events[i].type = "message" /\ ~events[i].frag.text

\* C11: any two message events written to one stream carry different ids,
\* and the ids increase in the order the events were written.
C11_IdsIncrease ==
  \A i, j \in 1..Len(events) :
    (i < j /\ events[i].type = "message" /\ events[j].type = "message")
      => events[i].id < events[j].id

\* C12: a run on a thread starts from the history the checkpointer holds
\* for it, with the new human message appended; every later step of the
\* run only appends to the history, and the checkpoint of each thread only
\* grows, so the run ends with what a run holding that history in memory
\* ends with.
C12_ResumeAppends ==
  [][/\ \A t \in AllThreads : IsPrefix(checkpoint[t], checkpoint'[t])
     /\ run' = run + 1 =>
          /\ history' = checkpoint[config'.thread_id] \o <<HumanMessage>>
          /\ checkpoint'[config'.thread_id] = history'
     /\ run' = run =>
          /\ IsPrefix(history, history')
          /\ run >= 1 => checkpoint'[config'.thread_id] = history']_vars

C12_Witness ==
  /\ run = 2
  /\ node = END
  /\ resp = "closed"
  /\ Len(history) >= 5
  /\ history[1].type = "human"
  /\ history[2].type = "ai"
  /\ \E k \in 3..Len(history) : history[k].type = "human"
  /\ checkpoint[config.thread_id] = history

\* The rows and records a step wrote: those that are new or changed.
Written(before, after) == after \ before

\* C14: a thread has one owner; a run starts on a thread only for the user
\* who owns it (a thread that existed before the request is never run for
\* another user, and its checkpoint changes only in runs of its owner);
\* the handlers of a dispatch act under the userId of that owner: it is the
\* userId of the configuration, and of every row and record they create.
C14_ThreadBoundToOneUser ==
  /\ [](\A c1, c2 \in chats : c1.id = c2.id => c1.userId = c2.userId)
  /\ [](run >= 1 =>
          \E c \in chats : /\ c.id = config.thread_id
                           /\ c.userId = config.userId
                           /\ ensureConfiguration(config).userId = c.userId)
  /\ [][/\ run' = run + 1 =>
             \A c \in chats : c.id = config'.thread_id => c.userId = config'.userId
        /\ \A t \in AllThreads :
             checkpoint'[t] # checkpoint[t] =>
               /\ config'.thread_id = t
               /\ \A c \in chats' : c.id = t => c.userId = config'.userId
        /\ Dispatched =>
             /\ \A e \in Written(waterLog, waterLog') :
                  e.id \notin {o.id : o \in waterLog} => e.userId = config.userId
             /\ \A e \in Written(foodLog, foodLog') : e.userId = config.userId
             /\ \A m \in Written(memories, memories') :
                  m.ns = <<"memories", config.userId>>]_vars

\* A second user was refused on a thread of the first, on which a tool
\* has run.
C14_Witness ==
  /\ resp = "500"
  /\ \E c \in chats :
       /\ checkpoint[c.id] # <<>>
       /\ c.id = config.thread_id
       /\ \E k \in 1..Len(checkpoint[c.id]) : checkpoint[c.id][k].type = "tool"
       /\ \E e \in waterLog : e.userId = c.userId

\* The single tool call a dispatch step runs, when the turn has one.
OneCall(name) ==
  /\ Dispatched
  /\ Len(Last(history).calls) = 1
  /\ Last(history).calls[1].name = name

\* C15: every row a dispatch creates or changes in the intake logs is
\* owned by the user the run acts for.
C15_WritesOwnRowsOnly ==
  [][Dispatched =>
       /\ \A e \in Written(waterLog, waterLog') : e.userId = config.userId
       /\ \A e \in Written(foodLog, foodLog') : e.userId = config.userId]_vars

\* C16: saveWaterIntake with an entryId that names an existing entry
\* updates that entry and adds none; in every other case (no entryId, or
\* an entryId that names no entry) it adds exactly one entry and changes
\* none.
C16_UpdateOrCreate ==
  [][OneCall("saveWaterIntake") =>
       LET args == Last(history).calls[1].args
           ids  == {e.id : e \in waterLog}
       IN  IF args.id # 0 /\ args.id \in ids
           THEN /\ {e.id : e \in waterLog'} = ids
                /\ \A e \in waterLog : e.id # args.id => e \in waterLog'
                /\ \E e \in waterLog' :
                     /\ e.id = args.id
                     /\ e.amount = convertWaterAmount(args.amount, args.unit,
                                                      normalizeWaterUnit(args.unit))
                     /\ e.unit = normalizeWaterUnit(args.unit)
           ELSE /\ waterLog \subseteq waterLog'
                /\ Cardinality(waterLog') = Cardinality(waterLog) + 1]_vars

\* The calls C17 repeats: every entryId, with and without a timestamp.
TwiceArgs ==
  {[NoArgs EXCEPT !.id = i, !.amount = 800, !.unit = " OZ ", !.ts = s] :
     i \in 1..MaxEntryId, s \in {0, 2}}

\* The stores after saveWaterIntake(args) for user u at time t1, and after
\* the same call once more at time t2 (the same millisecond or a later one).
Once(args, u, t1) ==
  saveWaterIntake(args, [thread_id |-> "t1", userId |-> u], TRUE, Stores, t1).db

Twice(args, u, t1, t2) ==
  saveWaterIntake(args, [thread_id |-> "t1", userId |-> u], TRUE,
                  Once(args, u, t1), t2).db

\* C17 as stated: from any store, two calls of saveWaterIntake with the
\* same entryId and arguments leave the same set of entries as one call.
C17_TwiceIsOnce ==
  \A args \in TwiceArgs, u \in Users, t2 \in {now, now + 1} :
    Twice(args, u, now, t2).waterLog = Once(args, u, now).waterLog

\* C17 amended: the second call writes the record the first one wrote and
\* adds none; the entries are the same as after one call except for
\* consumedAt of that record, and the same in consumedAt too when the
\* arguments carry a timestamp.
C17_TwiceIsOnceUpToConsumedAt ==
  \A args \in TwiceArgs, u \in Users, t2 \in {now, now + 1} :
    LET once  == Once(args, u, now).waterLog
        twice == Twice(args, u, now, t2).waterLog
    IN  /\ {e.id : e \in twice} = {e.id : e \in once}
        /\ Cardinality(twice) = Cardinality(once)
        /\ \A e \in twice : \E o \in once :
             /\ o.id = e.id
             /\ [o EXCEPT !.consumedAt = e.consumedAt] = e
             /\ (e.id # args.id \/ args.ts # 0 \/ t2 = now) => o = e

\* An entry exists that a call naming its id has updated.
C17_Witness ==
  \E k \in 1..Len(history) :
    /\ history[k].type = "tool"
    /\ history[k].content = "Updated water intake"
    /\ \E e \in waterLog : e.id = history[k].ref /\ e.id \in 1..MaxEntryId

\* The memory records of the namespace of user u.
MemoriesOf(mems, u) == {m \in mems : m.ns = <<"memories", u>>}

\* C18: upsertMemory with a memoryId that exists in the namespace of the
\* acting user replaces that record, leaves the number of the user's
\* records unchanged and returns that id; without a memoryId it adds
\* exactly one record, under a key no record had, and returns that key.
\* The records of other users are not touched.
C18_UpsertMemory ==
  [][OneCall("upsertMemory") =>
       LET args   == Last(history).calls[1].args
           before == MemoriesOf(memories, config.userId)
           after  == MemoriesOf(memories', config.userId)
           rec(k) == [ns |-> <<"memories", config.userId>>, key |-> k,
                      content |-> args.content]
       IN  /\ memories \ before = memories' \ after
           /\ (args.id # 0 /\ \E m \in before : m.key = args.id) =>
                /\ Cardinality(after) = Cardinality(before)
                /\ after = {m \in before : m.key # args.id} \cup {rec(args.id)}
                /\ Last(history').ref = args.id
           /\ args.id = 0 =>
                /\ Cardinality(after) = Cardinality(before) + 1
                /\ \E k \in 1..(Cardinality(memories) + 1) :
                     /\ k \notin {m.key : m \in memories}
                     /\ after = before \cup {rec(k)}
                     /\ Last(history').ref = k]_vars

\* A record was written twice under the same key by the same thread: the
\* second write replaced it.
C18_Witness ==
  \E m \in memories :
    /\ m.content = "c2"
    /\ \E j, k \in 1..Len(history) :
         /\ j < k
         /\ history[j].name = "upsertMemory" /\ history[j].type = "tool"
         /\ history[k].name = "upsertMemory" /\ history[k].type = "tool"
         /\ history[j].ref = m.key /\ history[k].ref = m.key
         /\ m.ns = <<"memories", config.userId>>

\* C19: invoked under a config that carries no userId, each of the three
\* handlers throws (the invocation rejects, which aborts the run) and
\* leaves the stores as they were.
C19_MissingUserIsFatal ==
  \A name \in initializeTools :
    LET r == toolInvoke([name |-> name, id |-> 1, args |-> NoArgs],
                        NoConfig, AllUp, Stores, now)
    IN  r.msg = Rejected /\ r.db = Stores

\* The model was invoked in this step (it returned or it threw).
ModelInvoked == node = "call_model" /\ invocations' = invocations + 1

\* C20: every model invocation is preceded by exactly one memory search;
\* the records it puts in the system prompt are records of the namespace of
\* the run's user, all of them when there are up to 10 and 10 of them when
\* there are more.
C20_OwnMemoriesOnly ==
  /\ [](searches = invocations)
  /\ [][ModelInvoked =>
          LET own == MemoriesOf(memories, config.userId) IN
            /\ searches' = searches + 1
            /\ sys' \subseteq own
            /\ Cardinality(sys') <= SearchLimit
            /\ Cardinality(own) <= SearchLimit => sys' = own
            /\ Cardinality(own) > SearchLimit => Cardinality(sys') = SearchLimit]_vars

\* The user of the run has 11 records, 10 of them are in the prompt, and
\* another user has a record too.
C20_Witness ==
  /\ invocations >= 1
  /\ Cardinality(sys) = SearchLimit
  /\ Cardinality(MemoriesOf(memories, config.userId)) = SearchLimit + 1
  /\ sys \subseteq MemoriesOf(memories, config.userId)
  /\ \E m \in memories : m.ns # <<"memories", config.userId>>

\* The tool-call requests of the turn being dispatched that name the tool.
CallsOf(name) ==
  {i \in 1..Len(Last(history).calls) : Last(history).calls[i].name = name}

\* C21: the memory store changes only in a dispatch whose turn requests
\* upsertMemory, by at most one record per such request; callModel, the
\* gateway and a dispatch of saveFoodIntake and saveWaterIntake alone leave
\* it as it is; no step removes a record.
C21_MemoryFrame ==
  [][/\ \A m \in memories :
          \E o \in memories' : o.ns = m.ns /\ o.key = m.key
     /\ memories' # memories =>
          /\ Dispatched
          /\ CallsOf("upsertMemory") # {}
          /\ Cardinality(Written(memories, memories'))
               <= Cardinality(CallsOf("upsertMemory"))]_vars

\* A memory was stored, a later turn logged food or water, and the run
\* went on to completion with the memory in place.
C21_Witness ==
  /\ memories # {}
  /\ resp = "closed"
  /\ node = END
  /\ \E k \in 1..Len(history) :
       /\ history[k].type = "tool" /\ history[k].name = "upsertMemory"
       /\ \E a \in (k + 1)..Len(history), j \in (k + 2)..Len(history) :
            /\ a < j
            /\ history[a].type = "ai"
            /\ history[j].type = "tool"
            /\ history[j].name \in {"saveFoodIntake", "saveWaterIntake"}

FoodError == "some error occurred while saving food intake"

NewFood == CHOOSE e \in Written(foodLog, foodLog') : TRUE

SplitsAs(q, value, unit) ==
  LET m      == quantityMatch(q)
      hasDot == \E i \in 1..Len(m.number) : m.number[i] = "."
  IN
    IF q # <<>> /\ q[1] \in Digits
    THEN /\ m.matched
         /\ \A i \in 1..Len(m.number) : m.number[i] \in Digits \cup {"."}
         /\ m.number[Len(m.number)] \in Digits
         /\ Cardinality({i \in 1..Len(m.number) : m.number[i] = "."}) <= 1
         /\ \E k \in 0..Len(q) :
              /\ q = m.number \o [i \in 1..k |-> " "] \o m.rest
              /\ m.rest # <<>> => m.rest[1] \notin Whitespace
              /\ (k = 0 /\ m.rest # <<>>) =>
                   /\ m.rest[1] \notin Digits
                   /\ ~hasDot =>
                        ~(/\ m.rest[1] = "."
                          /\ Len(m.rest) > 1
                          /\ m.rest[2] \in Digits)
         /\ value = parseFloat(m.number)
         /\ unit = IF trim(m.rest) = <<>> THEN NullText ELSE Text(trim(m.rest))
    ELSE value = Null /\ unit = Text(q)

\* The examples of the quantity split.
SplitExamples ==
  /\ quantityValue(<<"1", "5", "0", "g">>) = 150 * Scale
  /\ quantityUnit(<<"1", "5", "0", "g">>) = Text(<<"g">>)
  /\ quantityValue(<<"1", " ", "c", "u", "p">>) = 1 * Scale
  /\ quantityUnit(<<"1", " ", "c", "u", "p">>) = Text(<<"c", "u", "p">>)
  /\ quantityValue(<<"a", "p", "p", "l", "e">>) = Null
  /\ quantityUnit(<<"a", "p", "p", "l", "e">>) = Text(<<"a", "p", "p", "l", "e">>)

\* C24 as stated: the stored entry carries the magnitude the text splits
\* into, null when it has no leading number, and the unit.
C24_StoredAsParsed ==
  [][OneCall("saveFoodIntake") =>
       LET q == Last(history).calls[1].args.quantity IN
         /\ NewFood.quantity = (IF quantityValue(q) = Null THEN Null
                                ELSE Decimal2(quantityValue(q)))
         /\ NewFood.unit = quantityUnit(q)]_vars

\* C24: the quantity text splits into a leading number and the trailing
\* text as stated, and the stored entry carries that unit and, when there
\* is a leading number, that magnitude; when there is none the stored
\* quantity is 1.
C24_StoredAsParsedOrOne ==
  /\ []SplitExamples
  /\ [][OneCall("saveFoodIntake") =>
          LET q == Last(history).calls[1].args.quantity IN
            /\ SplitsAs(q, quantityValue(q), quantityUnit(q))
            /\ NewFood.quantity = (IF quantityValue(q) = Null THEN 100
                                   ELSE Decimal2(quantityValue(q)))
            /\ NewFood.unit = quantityUnit(q)]_vars

\* "apple" was logged: the entry has the unit "apple" and the quantity 1.
C24_Witness ==
  \E e \in foodLog :
    /\ e.unit = Text(<<"a", "p", "p", "l", "e">>)
    /\ e.quantity = 100

\* The row a dispatch of one saveWaterIntake request created.
NewWater == CHOOSE e \in Written(waterLog, waterLog') : TRUE

\* An amount in hundredths of a ml, rounded to a whole ml.
WholeMl(a) == ((a + 50) \div 100) * 100

\* C25: whatever the unit string, the stored unit is ml or oz; an amount
\* in ml or milliliter(s) is stored in ml, cup(s) as amount x 250 ml,
\* liter(s) or l as amount x 1000 ml, and an amount in a unit that is not
\* recognised as ml with the amount as given, each rounded to a whole ml.
C25_UnitNormalised ==
  [][OneCall("saveWaterIntake") =>
       LET args == Last(history).calls[1].args
           unit == toLowerCaseTrim(args.unit)
       IN  /\ Cardinality(Written(waterLog, waterLog')) = 1
           /\ NewWater.unit \in {"ml", "oz"}
           /\ unit \in MlNames =>
                NewWater.unit = "ml" /\ NewWater.amount = WholeMl(args.amount)
           /\ unit \in CupNames =>
                NewWater.unit = "ml" /\ NewWater.amount = WholeMl(args.amount * 250)
           /\ unit \in LiterNames =>
                NewWater.unit = "ml" /\ NewWater.amount = WholeMl(args.amount * 1000)
           /\ unit \notin MlNames \cup CupNames \cup LiterNames \cup OunceNames =>
                NewWater.unit = "ml" /\ NewWater.amount = WholeMl(args.amount)]_vars

\* 2 cups were logged and stored as 500 ml.
C25_Witness ==
  /\ \E e \in waterLog : e.unit = "ml" /\ e.amount = 50000
  /\ \E k \in 1..Len(history) :
       /\ history[k].calls # <<>>
       /\ history[k].calls[1].args.unit = "cups"
       /\ history[k].calls[1].args.amount = 200

\* C26 as stated: an amount in ounces is stored in ml, at 29.5735 ml per
\* oz up to one ml of rounding, 8 oz as 227 ml.
C26_OuncesStoredAsMl ==
  [][(/\ OneCall("saveWaterIntake")
      /\ toLowerCaseTrim(Last(history).calls[1].args.unit) \in OunceNames) =>
       LET amount == Last(history).calls[1].args.amount IN
         /\ NewWater.unit = "ml"
         /\ NewWater.amount * 10000 >= amount * 295735 - 1000000
         /\ NewWater.amount * 10000 <= amount * 295735 + 1000000
         /\ amount = 800 => NewWater.amount \in 22600..22800]_vars

\* C26: an amount in ounces is stored in oz, with the amount as given to
\* two decimals: 8 oz is stored as 8 oz.  The factor 29.5735 ml per oz is
\* the one convertWaterAmount applies when it is asked for ml, where 8 oz
\* are 237 ml.
C26_OuncesStoredAsOunces ==
  /\ [](convertWaterAmount(800, "oz", "ml") = 23700)
  /\ [][(/\ OneCall("saveWaterIntake")
         /\ toLowerCaseTrim(Last(history).calls[1].args.unit) \in OunceNames) =>
          /\ NewWater.unit = "oz"
          /\ NewWater.amount = Last(history).calls[1].args.amount]_vars

\* 8 oz were logged and stored as 8 oz.
C26_Witness ==
  /\ \E e \in waterLog : e.unit = "oz" /\ e.amount = 800
  /\ \E k \in 1..Len(history) :
       /\ history[k].calls # <<>>
       /\ history[k].calls[1].args.unit = "oz"
       /\ history[k].calls[1].args.amount = 800

\* The thread ids of the runs in flight: those of the suspended handlers
\* and, while its response is open, that of the handler being executed.
InFlight ==
  [i \in 1..Len(parked) |-> parked[i].config.thread_id]
    \o (IF resp = "open" THEN <<config.thread_id>> ELSE <<>>)

\* C27: no two runs in flight are on the same thread.
C27_OneRunPerThread ==
  \A i, j \in 1..Len(InFlight) : InFlight[i] = InFlight[j] => i = j

\* C28: once the client has closed the connection of a request, no event
\* is written to its response.
C28_NoEventAfterClose ==
  [][(closed /\ requests' = requests) => events' = events]_vars

TerminalEvents ==
  {i \in 1..Len(events) : events[i].type \in {"complete", "error"}}

\* C29: after a model invocation of a run has failed, the run makes no
\* further model invocation and dispatches no tool, the stores stay as
\* they are, and when the response is closed its one terminal event, the
\* last event written, is the error event.
C29_NoRetry ==
  /\ [](failure = "model" => node = "error")
  /\ [][(failure = "model" /\ run' = run) =>
          /\ invocations' = invocations
          /\ dispatches' = dispatches
          /\ UNCHANGED <<storeVars, history, checkpoint>>]_vars
  /\ []((failure = "model" /\ resp = "closed") =>
          /\ Cardinality(TerminalEvents) = 1
          /\ Last(events).type = "error")

\* The model failed after a tool round, and the response was closed.
C29_Witness ==
  /\ failure = "model"
  /\ resp = "closed"
  /\ dispatches >= 1
  /\ invocations >= 2

\* The credentials the middleware rejects: no token, a token jwt.verify
\* refuses, a token of a user without a row or of a user not verified.
CredentialRejected(tok) ==
  \/ ~tok.present
  \/ ~tok.valid
  \/ tok.userId \in UnknownUsers
  \/ tok.userId \in UnverifiedUsers

\* C30: a request whose credential is rejected is answered 401: no thread
\* record is written, no response stream is opened, no run starts and no
\* store changes.  A run starts only for a request with an accepted
\* credential, under the userId of its token; the graph takes steps only
\* while the response of such a request is open.
C30_NoRunWithoutCredential ==
  /\ [][(requests' # requests /\ CredentialRejected(token')) =>
          /\ resp' = "401"
          /\ events' = <<>>
          /\ UNCHANGED <<chats, runVars, storeVars>>]_vars
  /\ [][run' # run =>
          /\ ~CredentialRejected(token')
          /\ config'.userId = token'.userId]_vars
  /\ [][(invocations' # invocations \/ dispatches' # dispatches) =>
          (requests' # requests \/ resp = "open")]_vars
  /\ [](resp = "open" =>
          /\ ~CredentialRejected(token)
          /\ config.userId = token.userId)

\* After a run of a verified user, a request with a well-signed token of
\* the user that is not verified was answered 401.
C30_Witness ==
  /\ resp = "401"
  /\ token.valid
  /\ token.userId \in UnverifiedUsers
  /\ run = 1
  /\ chats # {}

\* The thread records with the id.
ChatsOf(t) == {c \in chats : c.id = t}

\* C31: a thread id has at most one thread record, whatever runs between
\* the lookup and the create of concurrent requests; a request that opens
\* its stream on a thread without a record creates exactly the record
\* [thread, sender], one on a thread with a record of the sender creates
\* none, and no other step changes the thread records.
C31_OneThreadRecord ==
  /\ [](\A t \in AllThreads : Cardinality(ChatsOf(t)) <= 1)
  /\ [][(requests' # requests /\ resp' = "open") =>
          LET t == config'.thread_id
              u == config'.userId
          IN  /\ ChatsOf(t) = {} => chats' = chats \cup {[id |-> t, userId |-> u]}
              /\ ChatsOf(t) # {} =>
                   chats' = chats /\ ChatsOf(t) = {[id |-> t, userId |-> u]}]_vars
  /\ [][chats' # chats =>
          /\ requests' # requests
          /\ Cardinality(chats') = Cardinality(chats) + 1
          /\ chats \subseteq chats']_vars

\* Two first messages of one user with the same thread id were handled
\* concurrently: the second create was rejected (only a lookup made before
\* the first create lets the user's own request fail), one record is left.
C31_Witness ==
  /\ requests = 2
  /\ resp = "500"
  /\ chats = {[id |-> "t1", userId |-> token.userId]}

\* C32: a verify with a generated code is rejected with 400 and leaves no
\* entry when the entry has expired (now > expiresAt) or is gone; a verify
\* that matched the stored code removes the entry, so the same code cannot
\* be verified a second time.
C32_OtpOnceAndNotExpired ==
  [][\A i \in Identifiers, c \in Codes, dbOk \in BOOLEAN :
       Verify(i, c, dbOk) =>
         /\ (otpStorage[i] = NoOtp \/ now > otpStorage[i].expiresAt)
              => (authResp'.status = 400 /\ otpStorage'[i] = NoOtp)
         /\ authResp'.status # 400 => otpStorage'[i] = NoOtp]_vars

\* The code that was sent is submitted after its lifetime, is rejected as
\* expired, and the entry is gone.
C32_Witness ==
  /\ authResp.route = "verify"
  /\ authResp.otp \in Codes
  /\ authResp.status = 400
  /\ authResp.message = "OTP has expired"
  /\ otpStorage[authResp.identifier] = NoOtp
  /\ now > OtpTtl

\* C33: once the document has been split, pages whose output has no JSON
\* or fails the validation do not abort the request: the response is 200,
\* there is one result per page, in page order, the pages with a valid
\* output are the successful ones and all others are failed, the two
\* counts add up to totalPages, and the combined data holds the valid
\* pages only.
ValidPages == {k \in 1..Len(pdf.pages) : pdf.pages[k] = ValidJson}

C33_BadPageDoesNotAbort ==
  /\ pdf.split => pdf.status # 500
  /\ (pdf.split /\ pdf.phase = "done") =>
       /\ pdf.status = 200
       /\ Len(pdf.results) = Len(pdf.pages)
       /\ \A k \in 1..Len(pdf.results) : pdf.results[k].pageNumber = k
       /\ pdf.totalPages = Len(pdf.pages)
       /\ pdf.successfulPages = Cardinality(ValidPages)
       /\ pdf.successfulPages + pdf.failedPages = pdf.totalPages
       /\ pdf.combinedData = Cardinality(ValidPages) * ValidJson.totalQuestions

\* A document of more pages than one batch, with a page without JSON, a
\* page with invalid JSON and a valid page, has been answered.
C33_Witness ==
  /\ pdf.phase = "done"
  /\ pdf.status = 200
  /\ Len(pdf.pages) > maxConcurrency
  /\ \E i, j, k \in 1..Len(pdf.pages) :
       /\ pdf.pages[i] = NoJson
       /\ pdf.pages[j] = InvalidJson
       /\ pdf.pages[k] = ValidJson
  /\ pdf.failedPages >= 2
  /\ pdf.successfulPages >= 1

\* C34: the attempts of an entry never exceed 3, and a verify request for
\* an identifier whose entry has three attempts is rejected, whatever the
\* code.
C34_ThreeAttempts ==
  /\ [](\A i \in Identifiers : otpStorage[i].attempts <= 3)
  /\ [][\A i \in Identifiers, c \in Submitted, dbOk \in BOOLEAN :
          (Verify(i, c, dbOk) /\ otpStorage[i].attempts >= 3)
            => authResp'.status = 400]_vars

\* C35: a verify request is answered with a token pair only when the
\* submitted code is the unexpired code that otpStorage holds for the
\* identifier (which only send or resend puts there).
C35_TokenOnlyForStoredCode ==
  [][\A i \in Identifiers, c \in Submitted, dbOk \in BOOLEAN :
       (Verify(i, c, dbOk) /\ authResp'.status = 200)
         => /\ otpStorage[i] # NoOtp
            /\ otpStorage[i].otp = c
            /\ now <= otpStorage[i].expiresAt]_vars

\* C36: a refresh request succeeds with a token only while the hash the
\* user row holds is the hash of that token: a token that was exchanged
\* already, by a request that finished earlier or by a concurrent one, is
\* refused.
C36_RefreshSingleUse ==
  [][\A k \in 1..Len(refreshes), dbOk \in BOOLEAN :
       (/\ RefreshUpdate(k, dbOk)
        /\ authResp'.status = 200
        /\ users[refreshes[k].token.userId].refreshToken # NoRefresh)
         => bcryptCompare(refreshes[k].token,
                          users[refreshes[k].token.userId].refreshToken)]_vars

\* C37: once a logout has cleared the stored hash of a user, no refresh
\* request for that user succeeds until a verify stores a new one.
C37_NoRefreshAfterLogout ==
  [][\A k \in 1..Len(refreshes), dbOk \in BOOLEAN :
       (RefreshUpdate(k, dbOk) /\ authResp'.status = 200)
         => users[refreshes[k].token.userId].refreshToken # NoRefresh]_vars

\* The tool messages of the checkpointed history of thread t that answer a
\* request of the tool and name the record id.
ResultsFor(t, name, id) ==
  {k \in 1..Len(checkpoint[t]) :
     /\ checkpoint[t][k].type = "tool"
     /\ checkpoint[t][k].name = name
     /\ checkpoint[t][k].ref = id}

\* C38: every row of the intake logs and every memory record has exactly
\* one tool message naming it in the checkpointed history of the thread
\* (the specification has one thread), and a dispatch that fails the run
\* leaves the stores as they were.
C38_WritesMatchHistory ==
  /\ [](\A t \in Threads :
          /\ \A e \in foodLog :
               Cardinality(ResultsFor(t, "saveFoodIntake", e.id)) = 1
          /\ \A e \in waterLog :
               Cardinality(ResultsFor(t, "saveWaterIntake", e.id)) = 1
          /\ \A m \in memories :
               Cardinality(ResultsFor(t, "upsertMemory", m.key)) = 1)
  /\ [][(Dispatched /\ node' = "error") => UNCHANGED storeVars]_vars

\* C39: the window of a daily total (calories, water) of a date is the
\* window GET /user-food/today uses for it, from 00:00 UTC minus 330
\* minutes to 23:59:59.999 UTC minus 330 minutes: it ends one millisecond
\* before the window of the next date starts, and the total counts every
\* entry consumed within that day.
C39_TotalsCoverDay ==
  day.route \in {"user/calories", "user/water"} =>
    /\ day.startOfDay = newDate(day.date) - 330 * MinuteMs
    /\ day.endOfDay = newDate(day.date) + DayMs - 1 - 330 * MinuteMs
    /\ day.startOfDay = todayWindow(day.date, day.tz).startOfDay
    /\ day.endOfDay = todayWindow(day.date, day.tz).endOfDay
    /\ day.endOfDay + 1 = totalsWindow(day.date + 1, day.tz).startOfDay
    /\ day.entryCount =
         Cardinality({t \in day.entries :
                        /\ newDate(day.date) - 330 * MinuteMs <= t
                        /\ t < newDate(day.date + 1) - 330 * MinuteMs})

\* C40: a request answered 400 or 401 leaves the thread records, the
\* checkpoints and the stores as they were.
C40_RejectedChangesNothing ==
  [][(requests' # requests /\ resp' \in {"400", "401"}) =>
       UNCHANGED <<chats, checkpoint, storeVars>>]_vars
====
